---- MODULE Spec2Model ----
(***************************************************************************)
(* Model of the pocket-wayback-machine background service worker (sw.ts)   *)
(* together with the archive store (db.ts) and the in-page snapshot agent  *)
(* (content.ts).                                                           *)
(*                                                                         *)
(* Every async function of sw.ts is split at its awaits: one action per    *)
(* resumption.  The synchronous listeners are single actions.  External    *)
(* calls (chrome.storage, chrome.tabs, chrome.scripting, IndexedDB) may    *)
(* reject; a rejection is a nondeterministic choice at the resumption.     *)
(***************************************************************************)
EXTENDS Integers, Sequences, FiniteSets, TLC

\* ------------------------------------------------------------------------
\* Bounds of the model
\* ------------------------------------------------------------------------
MaxCommits == 2        \* top-level onCommitted events delivered
MaxCompletions == 1    \* top-level onCompleted events delivered (Spec)
MaxErrors == 1         \* top-level onErrorOccurred events delivered
MaxCommands == 1       \* messages delivered to the command surface
MaxRaceCommits == 2    \* top-level onCommitted events delivered (SpecNav)
MaxRaceCompletions == 2 \* top-level onCompleted events delivered (SpecNav)
MaxFairCommits == 1    \* top-level onCommitted events delivered (FairNav)
MaxFrameEvents == 2    \* sub-frame navigation events delivered (SpecFrames)
MaxSerialCommands == 3 \* commands sent one after the other
MaxClock == 4          \* seconds the clock is seen to advance by itself (SpecRetention)
MaxConcurrentCommands == 2     \* commands in flight together
MaxPageLimit == 2              \* greatest page size asked of getVisitsPage

\* ------------------------------------------------------------------------
\* Values
\* ------------------------------------------------------------------------
None == "<none>"                   \* undefined, where a string may stand
Nil == <<>>                        \* undefined, where a record may stand
NoTab == "<closed>"                \* chrome.tabs.get rejects for this tab
Failed == "<failed>"               \* chrome.tabs.get was rejected

UA == "https://a.com/"
UB == "https://b.com/"
UX == "chrome://newtab/"
Urls == {UA, UB, UX}

Tabs == {1, 2}

DocA == [title |-> "A", outerHTML |-> "<html>A</html>"]
DocB == [title |-> "B", outerHTML |-> "<html>B</html>"]
Docs == {DocA, DocB}
DocASpaced == [title |-> "A", outerHTML |-> "<html>A </html>"]
CaptureDocs == {DocA, DocB, DocASpaced}

PatB == "https://b.com/"           \* a deny pattern without wildcard
PatStar == "*://b.com/*"           \* a deny pattern with wildcards
PatGit == "*://*.github.com/*/settings*"
PatTail == "https://b.com/*"
PatTwoStars == "https://a.com/**"

\* more URLs, for the URL policy
USub == "https://sub.a.com/"
UPort == "http://a.com:8080/x"
UBx == "https://b.com/x"
UFtp == "ftp://a.com/"
UNone == "no scheme"
UNoHost == "https://"
UGitSettings == "https://foo.github.com/bar/settings/x"
UGitOther == "https://foo.github.com/bar/other"
PolicyUrls == {UA, UB, UX, USub, UPort, UBx, UFtp, UNone, UNoHost, UGitSettings,
               UGitOther}

\* The clock counts seconds (a millisecond count does not fit the checker's
\* integers).  DAYS_30 is DAYS_30_MS of sw.ts:5 in seconds, and a delay of
\* ms milliseconds lasts DelayOf(ms) seconds.
DAYS_30 == 30 * 24 * 60 * 60
DelayOf(ms) == (ms + 999) \div 1000

\* ------------------------------------------------------------------------
\* Strings
\* ------------------------------------------------------------------------
\* s.slice(i - 1, j): the characters i..j of s that exist
Slice(s, i, j) ==
    IF i > Len(s) \/ j < i THEN ""
    ELSE SubSeq(s, i, IF j > Len(s) THEN Len(s) ELSE j)

CharAt(s, i) == Slice(s, i, i)

RECURSIVE IndexFrom(_, _, _)
\* least index >= i of a character of s that is in set cs, or Len(s)+1
IndexFrom(s, cs, i) ==
    IF i > Len(s) THEN Len(s) + 1
    ELSE IF CharAt(s, i) \in cs THEN i
    ELSE IndexFrom(s, cs, i + 1)

RECURSIVE SkipFrom(_, _, _)
\* least index >= i of a character of s that is not in set cs, or Len(s)+1
SkipFrom(s, cs, i) ==
    IF i > Len(s) THEN Len(s) + 1
    ELSE IF CharAt(s, i) \notin cs THEN i
    ELSE SkipFrom(s, cs, i + 1)

Lower == {"a","b","c","d","e","f","g","h","i","j","k","l","m",
          "n","o","p","q","r","s","t","u","v","w","x","y","z"}
Digit == {"0","1","2","3","4","5","6","7","8","9"}
SchemeChars == Lower \cup Digit \cup {"+", "-", "."}
SpecialSchemes == {"http", "https", "ftp", "ws", "wss", "file"}

\* ------------------------------------------------------------------------
\* new URL(url): the parts of the WHATWG parser that sw.ts reads
\* ------------------------------------------------------------------------
\* the scheme of url, or "" when url has none (new URL throws)
UrlScheme(url) ==
    LET c == IndexFrom(url, {":"}, 1) IN
    IF c > Len(url) \/ c = 1 THEN ""
    ELSE LET sch == Slice(url, 1, c - 1) IN
         IF CharAt(sch, 1) \in Lower /\ SkipFrom(sch, SchemeChars, 1) > Len(sch)
         THEN sch ELSE ""

\* the authority of url: what follows "scheme:" and the slashes, up to / ? #
UrlAuthority(url) ==
    LET sch == UrlScheme(url)
        rest == Len(sch) + 2
        special == sch \in SpecialSchemes
        from == IF special THEN SkipFrom(url, {"/", "\\"}, rest)
                ELSE IF Slice(url, rest, rest + 1) = "//" THEN rest + 2
                ELSE 0
        to == IndexFrom(url, {"/", "?", "#"} \cup (IF special THEN {"\\"} ELSE {}), from)
    IN  IF sch = "" \/ from = 0 THEN "" ELSE Slice(url, from, to - 1)

\* new URL(url) does not throw
UrlParses(url) ==
    /\ UrlScheme(url) # ""
    /\ (UrlScheme(url) \in SpecialSchemes \ {"file"}) => UrlAuthority(url) # ""

\* sw.ts isHttpUrl
isHttpUrl(url) ==
    IF UrlParses(url) THEN UrlScheme(url) \in {"http", "https"} ELSE FALSE

\* sw.ts hostOf
hostOf(url) ==
    IF UrlParses(url) THEN UrlAuthority(url) ELSE ""

\* sw.ts toUrlKey
toUrlKey(url) == url

\* ------------------------------------------------------------------------
\* Deny patterns: wildcardToRegExp and the regular expression it builds
\* ------------------------------------------------------------------------
\* the class [.+?^${}()|[\]\\] of sw.ts:82
RegExpMeta == {".", "+", "?", "^", "$", "{", "}", "(", ")", "|", "[", "]", "\\"}

RECURSIVE EscapeMeta(_, _)
\* pattern.replace(/[.+?^${}()|[\]\\]/g, "\\$&"), from index i
EscapeMeta(p, i) ==
    IF i > Len(p) THEN ""
    ELSE (IF CharAt(p, i) \in RegExpMeta THEN "\\" \o CharAt(p, i) ELSE CharAt(p, i))
         \o EscapeMeta(p, i + 1)

RECURSIVE ReplaceEscapedStar(_, _)
\* escaped.replace(/\\\*/g, ".*"), from index i
ReplaceEscapedStar(e, i) ==
    IF i > Len(e) THEN ""
    ELSE IF Slice(e, i, i + 1) = "\\*" THEN ".*" \o ReplaceEscapedStar(e, i + 2)
    ELSE CharAt(e, i) \o ReplaceEscapedStar(e, i + 1)

\* the source text handed to new RegExp, sw.ts:82-83
RegExpSource(pattern) ==
    "^" \o ReplaceEscapedStar(EscapeMeta(pattern, 1), 1) \o "$"

RegExpError == <<[kind |-> "SyntaxError", ch |-> "", star |-> FALSE]>>

RECURSIVE ParseRegExp(_, _, _)
\* new RegExp(src): the atoms of src from index i, after the atoms acc; a "*"
\* with nothing to repeat (after "^", at the start, after a quantifier) is a
\* SyntaxError.  Only the syntax RegExpSource can produce is read.
ParseRegExp(src, i, acc) ==
    IF i > Len(src) THEN acc
    ELSE LET c == CharAt(src, i) IN
         IF c = "^" /\ i = 1 THEN ParseRegExp(src, i + 1, acc)
         ELSE IF c = "$" /\ i = Len(src) THEN acc
         ELSE IF c = "\\" THEN
             ParseRegExp(src, i + 2,
                 Append(acc, [kind |-> "lit", ch |-> CharAt(src, i + 1), star |-> FALSE]))
         ELSE IF c = "." THEN
             ParseRegExp(src, i + 1, Append(acc, [kind |-> "any", ch |-> "", star |-> FALSE]))
         ELSE IF c = "*" THEN
             IF acc = <<>> \/ acc[Len(acc)].star
             THEN RegExpError
             ELSE ParseRegExp(src, i + 1,
                     [acc EXCEPT ![Len(acc)] = [@ EXCEPT !.star = TRUE]])
         ELSE ParseRegExp(src, i + 1,
                 Append(acc, [kind |-> "lit", ch |-> c, star |-> FALSE]))

\* sw.ts wildcardToRegExp: the compiled expression, or RegExpError when
\* new RegExp throws
wildcardToRegExp(pattern) == ParseRegExp(RegExpSource(pattern), 1, <<>>)

AtomMatches(a, c) == IF a.kind = "any" THEN c # "\n" ELSE c = a.ch

RECURSIVE RegExpMatch(_, _, _, _)
\* atoms re[i..] match exactly s[j..] (the expression is anchored at both ends)
RegExpMatch(re, i, s, j) ==
    IF i > Len(re) THEN j > Len(s)
    ELSE IF re[i].star THEN
        \/ RegExpMatch(re, i + 1, s, j)
        \/ (j <= Len(s) /\ AtomMatches(re[i], CharAt(s, j)) /\ RegExpMatch(re, i, s, j + 1))
    ELSE j <= Len(s) /\ AtomMatches(re[i], CharAt(s, j)) /\ RegExpMatch(re, i + 1, s, j + 1)

\* RegExp.prototype.test of a compiled expression
RegExpTest(re, s) == RegExpMatch(re, 1, s, 1)

\* a loop that the first pattern whose compilation throws ends: C15 tells it
\* from sw.ts:87-98
urlMatchesUntilError(url, patterns) ==
    \E i \in 1..Len(patterns) :
        /\ \A j \in 1..i : wildcardToRegExp(patterns[j]) # RegExpError
        /\ RegExpTest(wildcardToRegExp(patterns[i]), url)

\* sw.ts urlMatchesPatterns: a pattern whose compilation throws is skipped
urlMatchesPatterns(url, patterns) ==
    \E i \in 1..Len(patterns) :
        /\ wildcardToRegExp(patterns[i]) # RegExpError
        /\ RegExpTest(wildcardToRegExp(patterns[i]), url)

\* ------------------------------------------------------------------------
\* Settings
\* ------------------------------------------------------------------------
\* the defaults getSettings applies to an empty store, sw.ts:103-108
DefaultSettings ==
    [enabled |-> TRUE, minStayMs |-> 2000,
     disabledHosts |-> <<>>, disabledUrlPatterns |-> <<>>]

\* a membership test that also accepts an entry ending the text searched
\* for: C16 tells it from Array.prototype.includes
SeqContainsSuffixOf(seq, x) ==
    \E k \in 1..Len(seq) :
        Len(seq[k]) <= Len(x) /\ Slice(x, Len(x) - Len(seq[k]) + 1, Len(x)) = seq[k]

SeqContains(q, x) == \E i \in 1..Len(q) : q[i] = x

\* an eligibility check that does not look at settings.enabled: C13 tells it
\* from sw.ts:118-128
shouldArchiveUrlIfEnabled(url, s) ==
    IF ~isHttpUrl(url) THEN FALSE
    ELSE IF hostOf(url) # "" /\ SeqContains(s.disabledHosts, hostOf(url)) THEN FALSE
    ELSE IF Len(s.disabledUrlPatterns) # 0 /\ urlMatchesPatterns(url, s.disabledUrlPatterns)
         THEN FALSE
    ELSE TRUE

\* sw.ts shouldArchiveUrl, given the settings its getSettings call returned
shouldArchiveUrl(url, s) ==
    IF ~isHttpUrl(url) THEN FALSE
    ELSE IF ~s.enabled THEN FALSE
    ELSE IF hostOf(url) # "" /\ SeqContains(s.disabledHosts, hostOf(url)) THEN FALSE
    ELSE IF Len(s.disabledUrlPatterns) # 0 /\ urlMatchesPatterns(url, s.disabledUrlPatterns)
         THEN FALSE
    ELSE TRUE

\* ------------------------------------------------------------------------
\* Content fingerprint
\* ------------------------------------------------------------------------
\* content.ts getSnapshot: the markup the agent serialises for a document
SnapshotHtml(doc) == "<!doctype html>\n" \o doc.outerHTML

\* crypto.subtle.digest("SHA-256", new TextEncoder().encode(text)): the 32
\* bytes of the digest, for the texts the model hashes (the bytes are those
\* the real function gives)
SHA256(text) ==
    CASE text = "<!doctype html>\n<html>A</html>"
           -> <<94, 196, 156, 151, 62, 41, 145, 207, 188, 114, 208, 152, 10, 79, 55, 132,
                209, 28, 155, 103, 54, 11, 75, 220, 163, 246, 17, 218, 65, 248, 209, 74>>
      [] text = "<!doctype html>\n<html>B</html>"
           -> <<15, 123, 238, 213, 45, 10, 166, 83, 189, 29, 150, 211, 245, 120, 68, 174,
                129, 2, 18, 29, 235, 249, 232, 255, 135, 176, 159, 12, 87, 158, 12, 89>>
      [] text = "<!doctype html>\n<html>A </html>"
           -> <<74, 90, 39, 175, 244, 213, 155, 97, 38, 205, 167, 139, 147, 123, 82, 88,
                135, 4, 95, 42, 194, 222, 252, 89, 42, 48, 174, 41, 106, 67, 125, 154>>
      [] text = "<html>A</html>"
           -> <<51, 158, 171, 99, 16, 114, 107, 18, 180, 129, 204, 4, 14, 117, 97, 121,
                179, 92, 143, 243, 240, 222, 142, 107, 120, 69, 108, 53, 176, 141, 4, 65>>
      [] text = ""
           -> <<227, 176, 196, 66, 152, 252, 28, 20, 154, 251, 244, 200, 153, 111, 185, 36,
                39, 174, 65, 228, 100, 155, 147, 76, 164, 149, 153, 27, 120, 82, 184, 85>>

HexDigits == "0123456789abcdef"

\* Number.prototype.toString(16) of a byte
toString16(b) ==
    IF b < 16 THEN CharAt(HexDigits, b + 1)
    ELSE CharAt(HexDigits, (b \div 16) + 1) \o CharAt(HexDigits, (b % 16) + 1)

\* a byte written without padStart: C22 tells it from sw.ts:153
ByteHexUnpadded(b) == toString16(b)

\* bytes[i].toString(16).padStart(2, "0") (sw.ts:153)
ByteHex(b) == LET x == toString16(b) IN IF Len(x) < 2 THEN "0" \o x ELSE x

RECURSIVE HexFrom(_, _)
\* the loop of sw.ts:151-154 from index i
HexFrom(bytes, i) ==
    IF i > Len(bytes) THEN "" ELSE ByteHex(bytes[i]) \o HexFrom(bytes, i + 1)

\* sw.ts sha256Hex: the digest of text as lowercase hex
sha256Hex(text) == HexFrom(SHA256(text), 1)

\* ------------------------------------------------------------------------
\* State
\* ------------------------------------------------------------------------
VARIABLES
    now,            \* Date.now(), in seconds
    settings,       \* chrome.storage.local[SETTINGS_KEY], as getSettings reads it
    tabUrl,         \* browser: tab -> URL it shows, NoTab once removed
    navPhase,       \* browser: tab -> "committed" | "completed" (top frame)
    navByTab,       \* sw.ts:234  tab -> NavState | Nil
    erroredTabUrl,  \* sw.ts:235  tab -> URL | None
    timers,         \* setTimeout handles by timerId, with their callback's progress
    completions,    \* onCompleted handler invocations, with their progress
    commands,       \* onMessage handler invocations, with their progress
    visits,         \* IndexedDB store "visits"
    pages,          \* IndexedDB store "pages"
    uuids,          \* crypto.randomUUID() values handed out
    unhandled,      \* listeners whose promise was rejected with nobody to catch it
    used,           \* events delivered so far, per kind
    limits,         \* events that may be delivered, per kind (never changes)
    bounced,        \* history: timers that saw a top-level Commit while pending
    justErrored,    \* history: tab -> URL of the top-level Error event that was the
                    \* last navigation event of the tab | None
    log,            \* history: every store write, with the timer that made it
    archivePage     \* the state of the ArchivePage component (history list)

vars == <<now, settings, tabUrl, navPhase, navByTab, erroredTabUrl, timers,
          completions, commands, visits, pages, uuids, unhandled, used, limits,
          bounced, justErrored, log, archivePage>>

browser == <<tabUrl, navPhase, justErrored>>
store == <<visits, pages, uuids, log>>

FrameIds == {0, 1}

\* progress of a timer and of its callback (sw.ts:290-318)
TimerSteps == {"tabsGet", "putVisit", "purge", "getSettings", "inject",
               "sendMessage", "getVersions", "putPageVersion"}
\* how a callback ended
TimerEnds == {"tabError", "mismatch", "visitError", "purgeError", "settingsError",
              "skipped", "captureError", "versionsError", "unchanged", "putError",
              "stored"}
\* the ends that go through the catch block of sw.ts:311
TimerCaught == {"tabError", "visitError", "purgeError", "settingsError",
                "versionsError", "putError"}

Max(a, b) == IF a >= b THEN a ELSE b

\* a PageVersion of UA with the markup of DocA, stored by an earlier run of
\* the service worker
StoredA ==
    [versionId |-> 1, url |-> UA, urlKey |-> toUrlKey(UA), title |-> DocA.title,
     capturedAt |-> 0, hash |-> sha256Hex(SnapshotHtml(DocA)),
     contentType |-> "text/html", html |-> SnapshotHtml(DocA)]

\* ArchivePage as React first renders it (ArchivePage.tsx:23-27, 44), asking
\* for pages of `limit` rows. nextBefore is <<>> for null, <<t>> for a number;
\* loaded: loadFirstPage has run; page: the rows of the last page returned.
NewArchivePage(limit) ==
    [limit |-> limit, rows |-> <<>>, error |-> None, nextBefore |-> Nil,
     hasMore |-> TRUE, loaded |-> FALSE, page |-> <<>>]

\* The service worker has just started: its maps are empty, the stores hold
\* what earlier runs left, and one tab is open, whose navigation to UA is
\* committed and not yet completed. The history page asks for `limit` rows.
StartAll(lim, s, open, vs, limit) ==
    /\ archivePage = NewArchivePage(limit)
    /\ now = 0
    /\ settings = s
    /\ limits = lim
    /\ tabUrl = open
    /\ navPhase = [t \in Tabs |-> IF open[t] # NoTab THEN "committed" ELSE "completed"]
    /\ navByTab = [t \in Tabs |-> Nil]
    /\ erroredTabUrl = [t \in Tabs |-> None]
    /\ timers = <<>>
    /\ completions = <<>>
    /\ commands = <<>>
    /\ visits = vs
    /\ pages \in {{}, {StoredA}}
    /\ uuids = Cardinality(pages)
    /\ unhandled = {}
    /\ used = [commits |-> 0, completions |-> 0, errors |-> 0, commands |-> 0,
               frames |-> 0]
    /\ bounced = {}
    /\ justErrored = [t \in Tabs |-> None]
    /\ log = {}

\* the history page asks for 60 rows, as ArchivePage.tsx:164 does
StartFrom(lim, s, open, vs) == StartAll(lim, s, open, vs, 60)

\* tab 1 is open on url, and no Visit is stored
StartWith(lim, s, url) ==
    StartFrom(lim, s, [t \in Tabs |-> IF t = 1 THEN url ELSE NoTab], {})

\* no settings are stored yet; the tab is on UA
Start(lim) == StartWith(lim, DefaultSettings, UA)

Init ==
    Start([commits |-> MaxCommits, completions |-> MaxCompletions,
           errors |-> MaxErrors, commands |-> MaxCommands, frames |-> 0])

InitNav ==
    Start([commits |-> MaxRaceCommits, completions |-> MaxRaceCompletions,
           errors |-> 0, commands |-> 0, frames |-> 0])

\* one navigation of the tab, with events of its sub-frames
InitFrames ==
    Start([commits |-> 1, completions |-> 1, errors |-> 1, commands |-> 0,
           frames |-> MaxFrameEvents])

\* the settings the URL policy is asked with
PolicyHosts == {<<>>, <<"a.com">>, <<"a.com", "b.com">>, <<"b.a.com", "com">>}
PolicyPatterns == {<<>>, <<UA>>, <<PatGit>>, <<PatTail>>, <<PatStar, UB>>,
                   <<PatTwoStars, PatTail, UA>>}
PolicySettings ==
    {[enabled |-> e, minStayMs |-> 2000, disabledHosts |-> hs, disabledUrlPatterns |-> ps] :
        e \in BOOLEAN, hs \in PolicyHosts, ps \in PolicyPatterns}

\* the service worker has just started, with some stored settings; the tab's
\* navigation to some URL is committed, and its Completion is the one event
InitPolicy ==
    \E s \in PolicySettings, url \in PolicyUrls :
        StartWith([commits |-> 0, completions |-> 1, errors |-> 0, commands |-> 0,
                   frames |-> 0], s, url)

\* no navigation; the commands of two UI pages
InitConcurrent ==
    Start([commits |-> 0, completions |-> 0, errors |-> 0,
           commands |-> MaxConcurrentCommands, frames |-> 0])

\* Visits of earlier runs, two of them logged in the same millisecond
PagedVisit(id, at) ==
    [visitId |-> id, url |-> UA, urlKey |-> toUrlKey(UA), visitAt |-> at,
     transitionType |-> "", tabId |-> 1]
PagedVisits == {PagedVisit(1, 1), PagedVisit(2, 1), PagedVisit(3, 2), PagedVisit(4, 3)}

\* no tab is open; the history page is opened on some stored Visits
InitPaging ==
    \E vs \in SUBSET PagedVisits, limit \in 1..MaxPageLimit :
        StartAll([commits |-> 0, completions |-> 0, errors |-> 0, commands |-> 0,
                  frames |-> 0],
                 DefaultSettings, [t \in Tabs |-> NoTab], vs, limit)

InitCommands ==
    Start([commits |-> 0, completions |-> 0, errors |-> 0,
           commands |-> MaxSerialCommands, frames |-> 0])

\* Visits of earlier runs, logged around 30 days before the service worker
\* started (the clock counts from its start): k seconds after 30 days before
OldVisit(k) ==
    [visitId |-> -k, url |-> UB, urlKey |-> toUrlKey(UB), visitAt |-> k - DAYS_30,
     transitionType |-> "", tabId |-> 2]
OldVisits == {OldVisit(k) : k \in 1..(MaxClock + 1)}

\* one navigation of the tab, with old Visits in the store
InitRetention ==
    StartFrom([commits |-> 1, completions |-> 1, errors |-> 0, commands |-> 0,
               frames |-> 0],
              DefaultSettings, [t \in Tabs |-> IF t = 1 THEN UA ELSE NoTab], OldVisits)

\* two tabs are open on UA; each completes its page load, and one navigation
\* and one navigation error follow. The minimum stay was set to 0, so the
\* clock stays where it is.
InitIsolation ==
    StartFrom([commits |-> 1, completions |-> 2, errors |-> 1, commands |-> 0,
               frames |-> 0],
              [DefaultSettings EXCEPT !.minStayMs = 0], [t \in Tabs |-> UA], {})

\* two tabs are open on UA, their navigations committed
InitTwoTabs ==
    StartFrom([commits |-> 0, completions |-> 2, errors |-> 0, commands |-> 0,
               frames |-> 0],
              DefaultSettings, [t \in Tabs |-> UA], {})

\* one navigation of the tab, and one command
InitStay ==
    Start([commits |-> 1, completions |-> 1, errors |-> 0, commands |-> 1, frames |-> 0])

InitFair ==
    Start([commits |-> MaxFairCommits, completions |-> MaxRaceCompletions,
           errors |-> 0, commands |-> 0, frames |-> 0])

\* ------------------------------------------------------------------------
\* Per-tab state
\* ------------------------------------------------------------------------
\* the three maps clearTabState touches
Machine == [navByTab |-> navByTab, erroredTabUrl |-> erroredTabUrl, timers |-> timers]

\* clearTimeout(timerId): a timer that has not fired yet never will
clearTimeout(tm, timerId) ==
    IF timerId \in DOMAIN tm /\ tm[timerId].pc = "pending"
    THEN [tm EXCEPT ![timerId].pc = "cleared"]
    ELSE tm

\* a clearing that empties both maps and cancels every recorded timer,
\* whatever the tab: C39 tells it from sw.ts:237-246
clearEveryTabState(tabId, m) ==
    [navByTab |-> [t \in Tabs |-> Nil],
     erroredTabUrl |-> [t \in Tabs |-> None],
     timers |-> [i \in DOMAIN m.timers |->
                    IF /\ m.timers[i].pc = "pending"
                       /\ \E t \in Tabs : m.navByTab[t] # Nil /\ m.navByTab[t].timerId = i
                    THEN [m.timers[i] EXCEPT !.pc = "cleared"]
                    ELSE m.timers[i]]]

\* sw.ts clearTabState
clearTabState(tabId, m) ==
    LET st == m.navByTab[tabId] IN
    [navByTab |-> [m.navByTab EXCEPT ![tabId] = Nil],
     erroredTabUrl |-> [m.erroredTabUrl EXCEPT ![tabId] = None],
     timers |-> IF st # Nil THEN clearTimeout(m.timers, st.timerId) ELSE m.timers]

SetMachine(m) ==
    /\ navByTab' = m.navByTab
    /\ erroredTabUrl' = m.erroredTabUrl
    /\ timers' = m.timers

PendingTimersOf(tabId) ==
    {i \in DOMAIN timers : timers[i].tabId = tabId /\ timers[i].pc = "pending"}

\* ------------------------------------------------------------------------
\* Navigation listeners
\* ------------------------------------------------------------------------
\* a listener without the frameId test of sw.ts:249, which clears the tab's
\* state on the commit of any frame: C12 tells it from sw.ts:248-256
onCommittedAnyFrame(tabId, url, frameId) ==
    /\ tabUrl[tabId] # NoTab
    /\ isHttpUrl(url)
    /\ LET kind == IF frameId = 0 THEN "commits" ELSE "frames" IN
       /\ used[kind] < limits[kind]
       /\ used' = [used EXCEPT ![kind] = @ + 1]
    /\ IF frameId = 0
       THEN /\ tabUrl' = [tabUrl EXCEPT ![tabId] = url]
            /\ navPhase' = [navPhase EXCEPT ![tabId] = "committed"]
            /\ justErrored' = [justErrored EXCEPT ![tabId] = None]
       ELSE UNCHANGED browser
    /\ bounced' = bounced \cup PendingTimersOf(tabId)
    /\ SetMachine(clearTabState(tabId, Machine))
    /\ UNCHANGED <<now, settings, completions, commands, store, unhandled, limits, archivePage>>

\* chrome.webNavigation.onCommitted listener; a top-level commit is also the
\* moment the tab starts showing url
onCommitted(tabId, url, frameId) ==
    /\ tabUrl[tabId] # NoTab
    /\ IF frameId # 0
       THEN /\ used.frames < limits.frames
            /\ used' = [used EXCEPT !.frames = @ + 1]
            /\ UNCHANGED <<browser, navByTab, erroredTabUrl, timers, bounced>>
       ELSE /\ used.commits < limits.commits
            /\ used' = [used EXCEPT !.commits = @ + 1]
            /\ tabUrl' = [tabUrl EXCEPT ![tabId] = url]
            /\ navPhase' = [navPhase EXCEPT ![tabId] = "committed"]
            /\ justErrored' = [justErrored EXCEPT ![tabId] = None]
            /\ bounced' = bounced \cup PendingTimersOf(tabId)
            /\ IF ~isHttpUrl(url)
               THEN UNCHANGED <<navByTab, erroredTabUrl, timers>>
               ELSE SetMachine(clearTabState(tabId, Machine))
    /\ UNCHANGED <<now, settings, completions, commands, store, unhandled, limits, archivePage>>

\* a listener that also destroys the NavState of the URL that failed, with
\* its timer: C27 tells it from sw.ts:258-263
onErrorOccurredClearing(tabId, url, frameId) ==
    /\ tabUrl[tabId] # NoTab
    /\ frameId = 0
    /\ used.errors < limits.errors
    /\ used' = [used EXCEPT !.errors = @ + 1]
    /\ justErrored' = [justErrored EXCEPT ![tabId] = url]
    /\ LET m == IF navByTab[tabId] # Nil /\ navByTab[tabId].url = url
                THEN clearTabState(tabId, Machine) ELSE Machine
       IN  SetMachine([m EXCEPT !.erroredTabUrl = [m.erroredTabUrl EXCEPT ![tabId] = url]])
    /\ UNCHANGED <<now, settings, tabUrl, navPhase, completions, commands,
                   store, unhandled, bounced, limits, archivePage>>

\* chrome.webNavigation.onErrorOccurred listener
onErrorOccurred(tabId, url, frameId) ==
    /\ tabUrl[tabId] # NoTab
    /\ IF frameId # 0
       THEN /\ used.frames < limits.frames
            /\ used' = [used EXCEPT !.frames = @ + 1]
            /\ UNCHANGED <<erroredTabUrl, justErrored>>
       ELSE /\ used.errors < limits.errors
            /\ used' = [used EXCEPT !.errors = @ + 1]
            /\ erroredTabUrl' = [erroredTabUrl EXCEPT ![tabId] = url]
            /\ justErrored' = [justErrored EXCEPT ![tabId] = url]
    /\ UNCHANGED <<now, settings, tabUrl, navPhase, navByTab, timers, completions, commands,
                   store, unhandled, bounced, limits, archivePage>>

\* chrome.webNavigation.onCompleted listener, up to its first await
\* (sw.ts:265-270); the top-level completion is that of the committed URL
onCompleted(tabId, url, frameId) ==
    /\ tabUrl[tabId] # NoTab
    /\ IF frameId # 0
       THEN /\ used.frames < limits.frames
            /\ used' = [used EXCEPT !.frames = @ + 1]
            /\ UNCHANGED <<navPhase, justErrored, completions>>
       ELSE /\ tabUrl[tabId] = url
            /\ navPhase[tabId] = "committed"
            /\ used.completions < limits.completions
            /\ used' = [used EXCEPT !.completions = @ + 1]
            /\ navPhase' = [navPhase EXCEPT ![tabId] = "completed"]
            /\ justErrored' = [justErrored EXCEPT ![tabId] = None]
            /\ completions' = Append(completions,
                   [tabId |-> tabId, url |-> url, minStayMs |-> 0,
                    afterError |-> (justErrored[tabId] = url),
                    pc |-> IF ~isHttpUrl(url) THEN "returned" ELSE "getSettings"])
    /\ UNCHANGED <<now, settings, tabUrl, navByTab, erroredTabUrl, timers, commands,
                   store, unhandled, bounced, limits, archivePage>>

\* onCompleted resumes from await getSettings() (sw.ts:270-282)
onCompletedGotSettings(h, ok) ==
    /\ h \in DOMAIN completions
    /\ completions[h].pc = "getSettings"
    /\ LET c == completions[h] IN
       IF ~ok
       THEN /\ completions' = [completions EXCEPT ![h].pc = "rejected"]
            /\ unhandled' = unhandled \cup {<<"onCompleted", h>>}
            /\ UNCHANGED <<navByTab, erroredTabUrl, timers>>
       ELSE IF erroredTabUrl[c.tabId] = c.url
       THEN /\ completions' = [completions EXCEPT ![h].pc = "errored",
                                                  ![h].minStayMs = settings.minStayMs]
            /\ SetMachine(clearTabState(c.tabId, Machine))
            /\ UNCHANGED unhandled
       ELSE /\ completions' = [completions EXCEPT ![h].pc = "shouldArchive",
                                                  ![h].minStayMs = settings.minStayMs]
            /\ UNCHANGED <<navByTab, erroredTabUrl, timers, unhandled>>
    /\ UNCHANGED <<now, settings, browser, commands, store, used, bounced, limits, archivePage>>

\* a timer just returned by setTimeout(callback, delay). Its callback's
\* locals: visit, cutoff, snap, version. History of what the callback was
\* given: seen, the answer of the tab query (a URL, NoTab, or Failed);
\* recent, the stored versions of its urlKey with the greatest capturedAt when
\* it read them; shown, the URL the tab showed when the snapshot was taken;
\* firedWith, the settings stored when the timer fired.
NewTimer(tabId, url, delay) ==
    [tabId |-> tabId, url |-> url, delay |-> delay, dueAt |-> now + DelayOf(delay),
     pc |-> "pending", visit |-> Nil, cutoff |-> 0, snap |-> Nil,
     version |-> Nil, seen |-> None, recent |-> {}, shown |-> None,
     firedWith |-> Nil]

\* a listener that takes the delay from the settings stored when it sets the
\* timer: C28 tells it from sw.ts:270-272, 290
onCompletedGotPolicyRereading(h, ok) ==
    /\ h \in DOMAIN completions
    /\ completions[h].pc = "shouldArchive"
    /\ LET c == completions[h] IN
       IF ~ok
       THEN /\ completions' = [completions EXCEPT ![h].pc = "rejected"]
            /\ unhandled' = unhandled \cup {<<"onCompleted", h>>}
            /\ UNCHANGED <<navByTab, erroredTabUrl, timers>>
       ELSE IF ~shouldArchiveUrl(c.url, settings)
       THEN /\ completions' = [completions EXCEPT ![h].pc = "ineligible"]
            /\ SetMachine(clearTabState(c.tabId, Machine))
            /\ UNCHANGED unhandled
       ELSE /\ completions' = [completions EXCEPT ![h].pc = "scheduled"]
            /\ timers' = Append(timers, NewTimer(c.tabId, c.url, settings.minStayMs))
            /\ navByTab' = [navByTab EXCEPT ![c.tabId] =
                    [url |-> c.url, completedAt |-> now, errored |-> FALSE,
                     timerId |-> Len(timers) + 1]]
            /\ UNCHANGED <<erroredTabUrl, unhandled>>
    /\ UNCHANGED <<now, settings, browser, commands, store, used, bounced, limits, archivePage>>

\* onCompleted resumes from await shouldArchiveUrl(url) (sw.ts:282-326)
onCompletedGotPolicy(h, ok) ==
    /\ h \in DOMAIN completions
    /\ completions[h].pc = "shouldArchive"
    /\ LET c == completions[h] IN
       IF ~ok
       THEN /\ completions' = [completions EXCEPT ![h].pc = "rejected"]
            /\ unhandled' = unhandled \cup {<<"onCompleted", h>>}
            /\ UNCHANGED <<navByTab, erroredTabUrl, timers>>
       ELSE IF ~shouldArchiveUrl(c.url, settings)
       THEN /\ completions' = [completions EXCEPT ![h].pc = "ineligible"]
            /\ SetMachine(clearTabState(c.tabId, Machine))
            /\ UNCHANGED unhandled
       ELSE /\ completions' = [completions EXCEPT ![h].pc = "scheduled"]
            /\ timers' = Append(timers, NewTimer(c.tabId, c.url, c.minStayMs))
            /\ navByTab' = [navByTab EXCEPT ![c.tabId] =
                    [url |-> c.url, completedAt |-> now, errored |-> FALSE,
                     timerId |-> Len(timers) + 1]]
            /\ UNCHANGED <<erroredTabUrl, unhandled>>
    /\ UNCHANGED <<now, settings, browser, commands, store, used, bounced, limits, archivePage>>

\* chrome.tabs.onRemoved listener
onRemoved(tabId) ==
    /\ tabUrl[tabId] # NoTab
    /\ tabUrl' = [tabUrl EXCEPT ![tabId] = NoTab]
    /\ justErrored' = [justErrored EXCEPT ![tabId] = None]
    /\ SetMachine(clearTabState(tabId, Machine))
    /\ UNCHANGED <<now, settings, navPhase, completions, commands, store, unhandled,
                   used, bounced, limits, archivePage>>

\* Date.now() is seen to have advanced by a second
Tick ==
    /\ now < MaxClock
    /\ now' = now + 1
    /\ UNCHANGED <<settings, browser, navByTab, erroredTabUrl, timers, completions,
                   commands, store, unhandled, used, bounced, limits, archivePage>>

\* ------------------------------------------------------------------------
\* Archive store (db.ts)
\* ------------------------------------------------------------------------
\* db.ts putVisit: objectStore.put, keyed by visitId
putVisit(vs, visit) == {v \in vs : v.visitId # visit.visitId} \cup {visit}

\* a purge of the closed range upperBound(cutoffMs): C21 tells it from
\* db.ts:146
purgeVisitsUpTo(vs, cutoffMs) == {v \in vs : ~(v.visitAt <= cutoffMs)}

\* db.ts purgeVisitsOlderThan: deletes the range upperBound(cutoffMs, open)
purgeVisitsOlderThan(vs, cutoffMs) == {v \in vs : ~(v.visitAt < cutoffMs)}

\* the order of a cursor of direction "prev" over the index by_visitAt:
\* descending key, and descending primary key among equal keys
VisitBefore(a, b) ==
    \/ a.visitAt > b.visitAt
    \/ a.visitAt = b.visitAt /\ a.visitId > b.visitId

\* the rows the cursor of db.ts getVisitsPage collects: it stops at limit rows
RECURSIVE CursorPrev(_, _)
CursorPrev(vs, limit) ==
    IF vs = {} \/ limit <= 0 THEN <<>>
    ELSE LET v == CHOOSE x \in vs : \A w \in vs \ {x} : VisitBefore(x, w)
         IN  <<v>> \o CursorPrev(vs \ {v}, limit - 1)

\* db.ts getVisitsPage: before is <<>> (undefined) or <<t>>; the range is
\* upperBound(before, open)
getVisitsPage(vs, limit, before) ==
    LET range == IF before = Nil THEN vs ELSE {v \in vs : v.visitAt < before[1]}
        rows == CursorPrev(range, Max(1, limit))
    IN  [rows |-> rows,
         nextBefore |-> IF Len(rows) > 0 THEN <<rows[Len(rows)].visitAt>> ELSE Nil]

\* db.ts putPageVersion: objectStore.put, keyed by versionId
putPageVersion(ps, version) == {v \in ps : v.versionId # version.versionId} \cup {version}

\* db.ts getVersionsByUrlKey: the rows of the index by_urlKey; the sort puts
\* one of greatest capturedAt first (among equal capturedAt, the order is that
\* of the random versionId)
getVersionsByUrlKey(ps, urlKey) == {v \in ps : v.urlKey = urlKey}

\* a reading in which any of the rows may come first: C29 tells it from the
\* sort of db.ts:97
AnyOfVersions(versions) == versions

\* a reading that takes the last row of the sorted list, one of least
\* capturedAt: C40 tells it from versions?.[0] of sw.ts:203
LastOfSorted(versions) ==
    {v \in versions : \A w \in versions : v.capturedAt <= w.capturedAt}

FirstOfSorted(versions) ==
    {v \in versions : \A w \in versions : w.capturedAt <= v.capturedAt}

\* ------------------------------------------------------------------------
\* The archive timer callback (sw.ts:290-318)
\* ------------------------------------------------------------------------
\* a callback without the finally block: C8 tells it from sw.ts:315-317
WithoutFinally(tabId, m) == m

\* the finally block of the callback, sw.ts:315-317
archiveTimerFinally(tabId, m) == clearTabState(tabId, m)

\* the callback of timer i ends with `end`
TimerEnd(i, end) ==
    SetMachine(archiveTimerFinally(timers[i].tabId,
                   [Machine EXCEPT !.timers = [timers EXCEPT ![i].pc = end]]))

TimerGoes(i, step) ==
    /\ timers' = [timers EXCEPT ![i].pc = step]
    /\ UNCHANGED <<navByTab, erroredTabUrl>>

\* the timer fires: no earlier than its delay, and not before a timer due
\* earlier; the callback runs up to await chrome.tabs.get (sw.ts:290-293)
archiveTimerFired(i) ==
    /\ i \in DOMAIN timers
    /\ timers[i].pc = "pending"
    /\ \A j \in DOMAIN timers : timers[j].pc = "pending" => timers[i].dueAt <= timers[j].dueAt
    /\ now' = Max(now, timers[i].dueAt)
    /\ timers' = [timers EXCEPT ![i].pc = "tabsGet", ![i].firedWith = settings]
    /\ UNCHANGED <<navByTab, erroredTabUrl>>
    /\ UNCHANGED <<settings, browser, completions, commands, store, unhandled, used, bounced, limits, archivePage>>

\* sw.ts logVisit, up to await putVisit: the Visit it builds (sw.ts:30-37)
NewVisit(tabId, url, urlKey, transitionType) ==
    [visitId |-> uuids + 1, url |-> url, urlKey |-> urlKey, visitAt |-> now,
     transitionType |-> transitionType, tabId |-> tabId]

\* a test that only asks for the tab to have a URL: C7 tells it from sw.ts:294
TabHasUrl(tabUrlNow, url) == tabUrlNow # ""

\* the test of sw.ts:294, negated: the tab shows the URL the timer was set for
TabStillOn(tabUrlNow, url) == tabUrlNow # "" /\ tabUrlNow = url

\* the callback of timer i ends with `end`, having been answered `seen` by the
\* tab query
TimerEndSeen(i, end, seen) ==
    SetMachine(archiveTimerFinally(timers[i].tabId,
                   [Machine EXCEPT !.timers = [timers EXCEPT ![i].pc = end,
                                                             ![i].seen = seen]]))

\* resumes from await chrome.tabs.get(tabId) (sw.ts:293-300); the query of a
\* closed tab is rejected
archiveTimerGotTab(i, ok) ==
    /\ i \in DOMAIN timers
    /\ timers[i].pc = "tabsGet"
    /\ LET t == timers[i] IN
       IF ~ok
       THEN TimerEndSeen(i, "tabError", Failed) /\ UNCHANGED uuids
       ELSE IF tabUrl[t.tabId] = NoTab
       THEN TimerEndSeen(i, "tabError", NoTab) /\ UNCHANGED uuids
       ELSE IF ~TabStillOn(tabUrl[t.tabId], t.url)
       THEN TimerEndSeen(i, "mismatch", tabUrl[t.tabId]) /\ UNCHANGED uuids
       ELSE /\ timers' = [timers EXCEPT ![i].pc = "putVisit",
                              ![i].seen = tabUrl[t.tabId],
                              ![i].visit = NewVisit(t.tabId, t.url, toUrlKey(t.url), "")]
            /\ uuids' = uuids + 1
            /\ UNCHANGED <<navByTab, erroredTabUrl>>
    /\ UNCHANGED <<now, settings, browser, completions, commands, visits, pages, log,
                   unhandled, used, bounced, limits, archivePage>>

\* a callback that goes on to the snapshot without having appended the Visit:
\* C6 tells it from sw.ts:300, 41
archiveTimerVisitSkipped(i, ok) ==
    /\ i \in DOMAIN timers
    /\ timers[i].pc = "putVisit"
    /\ timers' = [timers EXCEPT ![i].pc = "purge", ![i].cutoff = now - DAYS_30]
    /\ UNCHANGED <<now, settings, browser, navByTab, erroredTabUrl, completions,
                   commands, store, unhandled, used, bounced, limits, archivePage>>

\* logVisit resumes from await putVisit(visit) (sw.ts:41-46)
archiveTimerPutVisit(i, ok) ==
    /\ i \in DOMAIN timers
    /\ timers[i].pc = "putVisit"
    /\ IF ~ok
       THEN TimerEnd(i, "visitError") /\ UNCHANGED <<visits, log>>
       ELSE /\ visits' = putVisit(visits, timers[i].visit)
            /\ log' = log \cup {[op |-> "visit", timerId |-> i, id |-> timers[i].visit.visitId,
                                 url |-> timers[i].visit.url]}
            /\ timers' = [timers EXCEPT ![i].pc = "purge", ![i].cutoff = now - DAYS_30]
            /\ UNCHANGED <<navByTab, erroredTabUrl>>
    /\ UNCHANGED <<now, settings, browser, completions, commands, pages, uuids,
                   unhandled, used, bounced, limits, archivePage>>

\* a callback that starts over from the tab query when the purge fails: C31
\* tells it from the catch block of sw.ts:311-314
archiveTimerPurgedRetrying(i, ok) ==
    /\ i \in DOMAIN timers
    /\ timers[i].pc = "purge"
    /\ IF ~ok
       THEN TimerGoes(i, "tabsGet") /\ UNCHANGED visits
       ELSE /\ visits' = purgeVisitsOlderThan(visits, timers[i].cutoff)
            /\ IF ~isHttpUrl(timers[i].url)
               THEN TimerEnd(i, "skipped")
               ELSE TimerGoes(i, "getSettings")
    /\ UNCHANGED <<now, settings, browser, completions, commands, pages, uuids, log,
                   unhandled, used, bounced, limits, archivePage>>

\* logVisit resumes from await purgeVisitsOlderThan(cutoff); archiveIfChanged
\* starts and awaits shouldArchiveUrl (sw.ts:46-48, 309, 183, 119-124)
archiveTimerPurged(i, ok) ==
    /\ i \in DOMAIN timers
    /\ timers[i].pc = "purge"
    /\ IF ~ok
       THEN TimerEnd(i, "purgeError") /\ UNCHANGED visits
       ELSE /\ visits' = purgeVisitsOlderThan(visits, timers[i].cutoff)
            /\ IF ~isHttpUrl(timers[i].url)
               THEN TimerEnd(i, "skipped")
               ELSE TimerGoes(i, "getSettings")
    /\ UNCHANGED <<now, settings, browser, completions, commands, pages, uuids, log,
                   unhandled, used, bounced, limits, archivePage>>

\* a callback that goes on to the capture without the policy's answer: C26
\* tells it from sw.ts:183-186
archiveTimerPolicyUnasked(i, ok) ==
    /\ i \in DOMAIN timers
    /\ timers[i].pc = "getSettings"
    /\ IF ~ok THEN TimerEnd(i, "settingsError") ELSE TimerGoes(i, "inject")
    /\ UNCHANGED <<now, settings, browser, completions, commands, store, unhandled,
                   used, bounced, limits, archivePage>>

\* archiveIfChanged resumes from await shouldArchiveUrl(url) (sw.ts:183-191)
archiveTimerGotPolicy(i, ok) ==
    /\ i \in DOMAIN timers
    /\ timers[i].pc = "getSettings"
    /\ IF ~ok THEN TimerEnd(i, "settingsError")
       ELSE IF ~shouldArchiveUrl(timers[i].url, settings) THEN TimerEnd(i, "skipped")
       ELSE TimerGoes(i, "inject")
    /\ UNCHANGED <<now, settings, browser, completions, commands, store, unhandled,
                   used, bounced, limits, archivePage>>

\* chrome.scripting.executeScript can act on the tab: it is open and shows a
\* page that may be scripted
Scriptable(tabId) == tabUrl[tabId] # NoTab /\ isHttpUrl(tabUrl[tabId])

\* a callback that sets a new timer when the injection fails: C24 tells it
\* from sw.ts:189-196
archiveTimerInjectedRetrying(i, ok) ==
    /\ i \in DOMAIN timers
    /\ timers[i].pc = "inject"
    /\ IF ~ok \/ ~Scriptable(timers[i].tabId)
       THEN SetMachine(archiveTimerFinally(timers[i].tabId,
                [Machine EXCEPT !.timers =
                    Append([timers EXCEPT ![i].pc = "captureError"],
                           NewTimer(timers[i].tabId, timers[i].url, timers[i].delay))]))
       ELSE TimerGoes(i, "sendMessage")
    /\ UNCHANGED <<now, settings, browser, completions, commands, store, unhandled,
                   used, bounced, limits, archivePage>>

\* captureTabSnapshot resumes from await executeScript (sw.ts:167-172)
archiveTimerInjected(i, ok) ==
    /\ i \in DOMAIN timers
    /\ timers[i].pc = "inject"
    /\ IF ~ok \/ ~Scriptable(timers[i].tabId)
       THEN TimerEnd(i, "captureError")
       ELSE TimerGoes(i, "sendMessage")
    /\ UNCHANGED <<now, settings, browser, completions, commands, store, unhandled,
                   used, bounced, limits, archivePage>>

\* captureTabSnapshot resumes from await chrome.tabs.sendMessage with the
\* agent's answer for the document the tab shows; archiveIfChanged hashes it
\* and awaits getVersionsByUrlKey (sw.ts:172-179, 198-202; content.ts:3-15)
archiveTimerGotSnapshot(i, ok, doc) ==
    /\ i \in DOMAIN timers
    /\ timers[i].pc = "sendMessage"
    /\ IF ~ok \/ ~Scriptable(timers[i].tabId)
       THEN TimerEnd(i, "captureError")
       ELSE /\ timers' = [timers EXCEPT ![i].pc = "getVersions",
                              ![i].snap = [title |-> doc.title, html |-> SnapshotHtml(doc)],
                              ![i].shown = tabUrl[timers[i].tabId]]
            /\ UNCHANGED <<navByTab, erroredTabUrl>>
    /\ UNCHANGED <<now, settings, browser, completions, commands, store, unhandled,
                   used, bounced, limits, archivePage>>

\* a PageVersion whose hash is that of the empty text: C4 tells it from
\* sw.ts:209-219
PageVersionHashOfEmpty(url, snap) ==
    [versionId |-> uuids + 1, url |-> url, urlKey |-> toUrlKey(url), title |-> snap.title,
     capturedAt |-> now, hash |-> sha256Hex(""), contentType |-> "text/html",
     html |-> snap.html]

\* a PageVersion written under the identifier of the first stored one: C30
\* tells it from sw.ts:209-211
PageVersionOverwriting(url, snap) ==
    [versionId |-> 1, url |-> url, urlKey |-> toUrlKey(url), title |-> snap.title,
     capturedAt |-> now, hash |-> sha256Hex(snap.html), contentType |-> "text/html",
     html |-> snap.html]

\* the PageVersion archiveIfChanged builds (sw.ts:209-219)
NewPageVersion(url, snap) ==
    [versionId |-> uuids + 1, url |-> url, urlKey |-> toUrlKey(url), title |-> snap.title,
     capturedAt |-> now, hash |-> sha256Hex(snap.html), contentType |-> "text/html",
     html |-> snap.html]

\* the callback of timer i ends with `end`, having read the versions `recent`
TimerEndRead(i, end, recent) ==
    SetMachine(archiveTimerFinally(timers[i].tabId,
                   [Machine EXCEPT !.timers = [timers EXCEPT ![i].pc = end,
                                                             ![i].recent = recent]]))

\* the comparison of sw.ts:204 turned round: C23 tells it from sw.ts:203-204
DifferentFromLatest(latest, hash) == latest # Nil /\ latest.hash # hash

\* a comparison that never finds the hash unchanged: C5 tells it from
\* sw.ts:203-204
NeverSameAsLatest(latest, hash) == FALSE

\* the comparison of sw.ts:203-204: latest is versions[0], or Nil
SameAsLatest(latest, hash) == latest # Nil /\ latest.hash = hash

\* archiveIfChanged resumes from await getVersionsByUrlKey(urlKey) with the
\* rows read (sw.ts:202-210)
archiveTimerGotVersions(i, ok, latest) ==
    /\ i \in DOMAIN timers
    /\ timers[i].pc = "getVersions"
    /\ LET t == timers[i]
           versions == getVersionsByUrlKey(pages, toUrlKey(t.url)) IN
       /\ IF versions = {} THEN latest = Nil ELSE latest \in FirstOfSorted(versions)
       /\ IF ~ok THEN TimerEnd(i, "versionsError") /\ UNCHANGED uuids
          ELSE IF SameAsLatest(latest, sha256Hex(t.snap.html))
          THEN TimerEndRead(i, "unchanged", FirstOfSorted(versions)) /\ UNCHANGED uuids
          ELSE /\ timers' = [timers EXCEPT ![i].pc = "putPageVersion",
                                 ![i].recent = FirstOfSorted(versions),
                                 ![i].version = NewPageVersion(t.url, t.snap)]
               /\ uuids' = uuids + 1
               /\ UNCHANGED <<navByTab, erroredTabUrl>>
    /\ UNCHANGED <<now, settings, browser, completions, commands, visits, pages, log,
                   unhandled, used, bounced, limits, archivePage>>

\* archiveIfChanged resumes from await putPageVersion (sw.ts:210-222)
archiveTimerPutVersion(i, ok) ==
    /\ i \in DOMAIN timers
    /\ timers[i].pc = "putPageVersion"
    /\ IF ~ok
       THEN TimerEnd(i, "putError") /\ UNCHANGED <<pages, log>>
       ELSE /\ pages' = putPageVersion(pages, timers[i].version)
            /\ log' = log \cup {[op |-> "page", timerId |-> i, id |-> timers[i].version.versionId,
                                 url |-> timers[i].version.url]}
            /\ TimerEnd(i, "stored")
    /\ UNCHANGED <<now, settings, browser, completions, commands, visits, uuids,
                   unhandled, used, bounced, limits, archivePage>>

\* ------------------------------------------------------------------------
\* Strings as JavaScript orders and trims them
\* ------------------------------------------------------------------------
\* the printable ASCII characters in code-unit order (but the backquote)
AsciiOrder ==
    " !\"#$%&'()*+,-./0123456789:;<=>?@ABCDEFGHIJKLMNOPQRSTUVWXYZ[\\]^_abcdefghijklmnopqrstuvwxyz{|}~"

CodeUnit(c) == IndexFrom(AsciiOrder, {c}, 1)

RECURSIVE StrLessFrom(_, _, _)
StrLessFrom(a, b, i) ==
    IF i > Len(b) THEN FALSE
    ELSE IF i > Len(a) THEN TRUE
    ELSE IF CharAt(a, i) = CharAt(b, i) THEN StrLessFrom(a, b, i + 1)
    ELSE CodeUnit(CharAt(a, i)) < CodeUnit(CharAt(b, i))

\* a < b as Array.prototype.sort() without comparator orders strings
StrLess(a, b) == StrLessFrom(a, b, 1)

RECURSIVE InsertSorted(_, _)
InsertSorted(q, x) ==
    IF q = <<>> THEN <<x>>
    ELSE IF StrLess(x, Head(q)) THEN <<x>> \o q
    ELSE <<Head(q)>> \o InsertSorted(Tail(q), x)

RECURSIVE SortStrings(_)
\* arr.sort()
SortStrings(q) == IF q = <<>> THEN <<>> ELSE InsertSorted(SortStrings(Tail(q)), Head(q))

RECURSIVE Dedup(_)
\* the elements of new Set(q), in insertion order
Dedup(q) ==
    IF q = <<>> THEN <<>>
    ELSE LET front == Dedup(SubSeq(q, 1, Len(q) - 1)) IN
         IF SeqContains(front, q[Len(q)]) THEN front ELSE Append(front, q[Len(q)])

Without(q, x) == SelectSeq(q, LAMBDA y : y # x)

WhiteSpace == {" ", "\t", "\n", "\r"}

RECURSIVE TrimEnd(_)
TrimEnd(x) ==
    IF x # "" /\ CharAt(x, Len(x)) \in WhiteSpace THEN TrimEnd(Slice(x, 1, Len(x) - 1)) ELSE x

\* String.prototype.trim
Trim(x) == TrimEnd(Slice(x, SkipFrom(x, WhiteSpace, 1), Len(x)))

\* ------------------------------------------------------------------------
\* Command surface (sw.ts:346-434)
\* ------------------------------------------------------------------------
\* A message: type, url and pattern as sent ("" when absent), and minStayMs
\* as Number() reads it: not finite, or the finite number twice/2.
Msg(type, url, pattern, finite, twice) ==
    [type |-> type, url |-> url, pattern |-> pattern, finite |-> finite, twice |-> twice]

KnownTypes == {"PW_GET_SETTINGS", "PW_TOGGLE_ENABLED", "PW_SET_MIN_STAY_MS",
               "PW_TOGGLE_HOST", "PW_ADD_URL_PATTERN", "PW_REMOVE_URL_PATTERN"}

Response(ok, s, err) == [ok |-> ok, settings |-> s, error |-> err]

\* sw.ts:359
ToggleEnabled(s) == [s EXCEPT !.enabled = ~s.enabled]

\* a minimum stay stored without Math.max(0, .): C19 tells it from sw.ts:368-369
SetMinStayMsUnclamped(s, msg) ==
    IF msg.finite THEN [s EXCEPT !.minStayMs = msg.twice \div 2] ELSE s

\* sw.ts:368-369: Math.max(0, Math.floor(v)) of a finite v
SetMinStayMs(s, msg) ==
    IF msg.finite THEN [s EXCEPT !.minStayMs = Max(0, msg.twice \div 2)] ELSE s

\* a host toggle that never deletes: C18 tells it from sw.ts:377-390
ToggleHostAddOnly(s, msg) ==
    LET host == hostOf(msg.url)
        set == Dedup(s.disabledHosts)
    IN  [s EXCEPT !.disabledHosts =
            SortStrings(IF host = "" \/ SeqContains(set, host) THEN set
                        ELSE Append(set, host))]

\* a host toggle that leaves out arr.sort(): C17 tells it from sw.ts:377-390
ToggleHostUnsorted(s, msg) ==
    LET host == hostOf(msg.url)
        set == Dedup(s.disabledHosts)
    IN  [s EXCEPT !.disabledHosts = IF host = "" THEN set
                                    ELSE IF SeqContains(set, host) THEN Without(set, host)
                                    ELSE Append(set, host)]

\* sw.ts:377-390
ToggleHost(s, msg) ==
    LET host == hostOf(msg.url)
        set == Dedup(s.disabledHosts)
        toggled == IF host = "" THEN set
                   ELSE IF SeqContains(set, host) THEN Without(set, host)
                   ELSE Append(set, host)
    IN  [s EXCEPT !.disabledHosts = SortStrings(toggled)]

\* sw.ts:402-409, for a non-empty trimmed pattern
AddUrlPattern(s, pattern) ==
    LET set == Dedup(s.disabledUrlPatterns)
        added == IF SeqContains(set, pattern) THEN set ELSE Append(set, pattern)
    IN  [s EXCEPT !.disabledUrlPatterns = SortStrings(added)]

\* sw.ts:420-422
RemoveUrlPattern(s, msg) ==
    [s EXCEPT !.disabledUrlPatterns = Without(s.disabledUrlPatterns, Trim(msg.pattern))]

\* chrome.runtime.onMessage listener, up to the first await of its async body
onMessage(msg) ==
    /\ used.commands < limits.commands
    /\ used' = [used EXCEPT !.commands = @ + 1]
    /\ commands' = Append(commands,
          IF msg.type \in KnownTypes
          THEN [msg |-> msg, pc |-> "get", read |-> Nil, next |-> Nil, response |-> Nil]
          ELSE [msg |-> msg, pc |-> "responded", read |-> Nil, next |-> Nil,
                response |-> Response(FALSE, Nil, "Unknown message")])
    /\ UNCHANGED <<now, settings, browser, navByTab, erroredTabUrl, timers, completions,
                   store, unhandled, bounced, limits, archivePage>>

\* the settings a command writes, given the settings it read
CommandUpdate(s, msg) ==
    CASE msg.type = "PW_TOGGLE_ENABLED" -> ToggleEnabled(s)
      [] msg.type = "PW_SET_MIN_STAY_MS" -> SetMinStayMs(s, msg)
      [] msg.type = "PW_TOGGLE_HOST" -> ToggleHost(s, msg)
      [] msg.type = "PW_ADD_URL_PATTERN" -> AddUrlPattern(s, Trim(msg.pattern))
      [] msg.type = "PW_REMOVE_URL_PATTERN" -> RemoveUrlPattern(s, msg)
      [] OTHER -> s

\* the handler resumes from its first await getSettings(), which returned the
\* stored settings (kept in read)
onMessageGotSettings(c, ok) ==
    /\ c \in DOMAIN commands
    /\ commands[c].pc = "get"
    /\ LET msg == commands[c].msg IN
       IF ~ok
       THEN /\ commands' = [commands EXCEPT ![c].pc = "rejected"]
            /\ unhandled' = unhandled \cup {<<"onMessage", c>>}
       ELSE /\ UNCHANGED unhandled
            /\ IF msg.type = "PW_GET_SETTINGS"
               THEN commands' = [commands EXCEPT ![c].pc = "responded",
                                     ![c].read = settings,
                                     ![c].response = Response(TRUE, settings, "")]
               ELSE IF msg.type = "PW_ADD_URL_PATTERN" /\ Trim(msg.pattern) = ""
               THEN commands' = [commands EXCEPT ![c].pc = "get2", ![c].read = settings]
               ELSE commands' = [commands EXCEPT ![c].pc = "set",
                                     ![c].read = settings,
                                     ![c].next = CommandUpdate(settings, msg)]
    /\ UNCHANGED <<now, settings, browser, navByTab, erroredTabUrl, timers, completions,
                   store, used, bounced, limits, archivePage>>

\* the handler resumes from await setSettings(settings)
onMessageSetSettings(c, ok) ==
    /\ c \in DOMAIN commands
    /\ commands[c].pc = "set"
    /\ IF ~ok
       THEN /\ commands' = [commands EXCEPT ![c].pc = "rejected"]
            /\ unhandled' = unhandled \cup {<<"onMessage", c>>}
            /\ UNCHANGED settings
       ELSE /\ settings' = commands[c].next
            /\ UNCHANGED unhandled
            /\ IF commands[c].msg.type = "PW_ADD_URL_PATTERN"
               THEN commands' = [commands EXCEPT ![c].pc = "get2"]
               ELSE commands' = [commands EXCEPT ![c].pc = "responded",
                                     ![c].response = Response(TRUE, commands[c].next, "")]
    /\ UNCHANGED <<now, browser, navByTab, erroredTabUrl, timers, completions,
                   store, used, bounced, limits, archivePage>>

\* PW_ADD_URL_PATTERN resumes from its second await getSettings() (sw.ts:413)
onMessageGotUpdated(c, ok) ==
    /\ c \in DOMAIN commands
    /\ commands[c].pc = "get2"
    /\ IF ~ok
       THEN /\ commands' = [commands EXCEPT ![c].pc = "rejected"]
            /\ unhandled' = unhandled \cup {<<"onMessage", c>>}
       ELSE /\ commands' = [commands EXCEPT ![c].pc = "responded",
                                ![c].response = Response(TRUE, settings, "")]
            /\ UNCHANGED unhandled
    /\ UNCHANGED <<now, settings, browser, navByTab, erroredTabUrl, timers, completions,
                   store, used, bounced, limits, archivePage>>

\* ------------------------------------------------------------------------
\* The history page (ArchivePage.tsx)
\* ------------------------------------------------------------------------
\* merged.filter of ArchivePage.tsx:196-201: the first row of each visitId
DedupById(q) ==
    LET keep == {i \in 1..Len(q) : \A j \in 1..(i - 1) : q[j].visitId # q[i].visitId}
        F[i \in 0..Len(q)] ==
            IF i = 0 THEN <<>>
            ELSE IF i \in keep THEN Append(F[i - 1], q[i]) ELSE F[i - 1]
    IN  F[Len(q)]

\* ArchivePage loadFirstPage, run when the page is mounted
loadFirstPage(ok) ==
    /\ ~archivePage.loaded
    /\ IF ok
       THEN LET page == getVisitsPage(visits, archivePage.limit, Nil) IN
            archivePage' = [archivePage EXCEPT !.loaded = TRUE, !.error = None,
                                !.rows = page.rows, !.nextBefore = page.nextBefore,
                                !.hasMore = Len(page.rows) > 0, !.page = page.rows]
       ELSE archivePage' = [archivePage EXCEPT !.loaded = TRUE,
                                !.error = "Failed to load history.",
                                !.rows = <<>>, !.nextBefore = Nil, !.hasMore = FALSE]
    /\ UNCHANGED <<now, settings, browser, navByTab, erroredTabUrl, timers, completions,
                   commands, store, unhandled, used, bounced, limits>>

\* ArchivePage loadMore, run when the end of the list scrolls into view
loadMore(ok) ==
    /\ archivePage.hasMore
    /\ IF archivePage.nextBefore = Nil
       THEN archivePage' = [archivePage EXCEPT !.hasMore = FALSE]
       ELSE IF ok
       THEN LET page == getVisitsPage(visits, archivePage.limit, archivePage.nextBefore) IN
            archivePage' = [archivePage EXCEPT !.error = None,
                                !.rows = DedupById(archivePage.rows \o page.rows),
                                !.nextBefore = page.nextBefore,
                                !.hasMore = Len(page.rows) > 0, !.page = page.rows]
       ELSE archivePage' = [archivePage EXCEPT !.error = "Failed to load more history."]
    /\ UNCHANGED <<now, settings, browser, navByTab, erroredTabUrl, timers, completions,
                   commands, store, unhandled, used, bounced, limits>>

\* ------------------------------------------------------------------------
\* Specification
\* ------------------------------------------------------------------------
\* the messages the UI sends while pages are being archived
Messages ==
    {Msg("PW_TOGGLE_ENABLED", "", "", FALSE, 0),
     Msg("PW_TOGGLE_HOST", UB, "", FALSE, 0),
     Msg("PW_ADD_URL_PATTERN", "", PatB, FALSE, 0)}

\* navigations, tab removal and the dwell timers
NavNext ==
    \/ \E t \in Tabs, u \in Urls, f \in FrameIds : onCommitted(t, u, f)
    \/ \E t \in Tabs, u \in Urls, f \in FrameIds : onCompleted(t, u, f)
    \/ \E h \in DOMAIN completions, ok \in BOOLEAN : onCompletedGotSettings(h, ok)
    \/ \E h \in DOMAIN completions, ok \in BOOLEAN : onCompletedGotPolicy(h, ok)
    \/ \E t \in Tabs : onRemoved(t)
    \/ \E i \in DOMAIN timers : archiveTimerFired(i)
    \/ \E i \in DOMAIN timers, ok \in BOOLEAN : archiveTimerGotTab(i, ok)
    \/ \E i \in DOMAIN timers, ok \in BOOLEAN : archiveTimerPutVisit(i, ok)
    \/ \E i \in DOMAIN timers, ok \in BOOLEAN : archiveTimerPurged(i, ok)
    \/ \E i \in DOMAIN timers, ok \in BOOLEAN : archiveTimerGotPolicy(i, ok)
    \/ \E i \in DOMAIN timers, ok \in BOOLEAN : archiveTimerInjected(i, ok)
    \/ \E i \in DOMAIN timers, ok \in BOOLEAN, doc \in Docs : archiveTimerGotSnapshot(i, ok, doc)
    \/ \E i \in DOMAIN timers, ok \in BOOLEAN, latest \in pages \cup {Nil} :
           archiveTimerGotVersions(i, ok, latest)
    \/ \E i \in DOMAIN timers, ok \in BOOLEAN : archiveTimerPutVersion(i, ok)

\* the whole service worker: navigations, navigation errors, timers and the
\* command surface
Next ==
    \/ NavNext
    \/ \E t \in Tabs, u \in Urls, f \in FrameIds : onErrorOccurred(t, u, f)
    \/ \E msg \in Messages : onMessage(msg)
    \/ \E c \in DOMAIN commands, ok \in BOOLEAN : onMessageGotSettings(c, ok)
    \/ \E c \in DOMAIN commands, ok \in BOOLEAN : onMessageSetSettings(c, ok)
    \/ \E c \in DOMAIN commands, ok \in BOOLEAN : onMessageGotUpdated(c, ok)

Spec == Init /\ [][Next]_vars

\* navigations, navigation errors and the dwell timers
FrameNext ==
    \/ NavNext
    \/ \E t \in Tabs, u \in Urls, f \in FrameIds : onErrorOccurred(t, u, f)

\* one navigation, its dwell timer, and the events of the page's sub-frames
SpecFrames == InitFrames /\ [][FrameNext]_vars

\* the Completion listener asks the URL policy
PolicyNext ==
    \/ \E t \in Tabs, u \in PolicyUrls, f \in FrameIds : onCompleted(t, u, f)
    \/ \E h \in DOMAIN completions, ok \in BOOLEAN : onCompletedGotSettings(h, ok)
    \/ \E h \in DOMAIN completions, ok \in BOOLEAN : onCompletedGotPolicy(h, ok)

\* the URL policy, asked for each URL under each of the settings
SpecPolicy == InitPolicy /\ [][PolicyNext]_vars

\* the messages of the popup and options pages, and one of an unknown type
CommandMessages ==
    {Msg("PW_GET_SETTINGS", "", "", FALSE, 0),
     Msg("PW_TOGGLE_ENABLED", "", "", FALSE, 0),
     Msg("PW_SET_MIN_STAY_MS", "", "", TRUE, 7),
     Msg("PW_SET_MIN_STAY_MS", "", "", TRUE, -3),
     Msg("PW_SET_MIN_STAY_MS", "", "", FALSE, 0),
     Msg("PW_TOGGLE_HOST", UA, "", FALSE, 0),
     Msg("PW_TOGGLE_HOST", UB, "", FALSE, 0),
     Msg("PW_TOGGLE_HOST", UNone, "", FALSE, 0),
     Msg("PW_ADD_URL_PATTERN", "", PatB, FALSE, 0),
     Msg("PW_ADD_URL_PATTERN", "", " https://a.com/ ", FALSE, 0),
     Msg("PW_ADD_URL_PATTERN", "", "  ", FALSE, 0),
     Msg("PW_REMOVE_URL_PATTERN", "", PatB, FALSE, 0),
     Msg("PW_NOPE", "", "", FALSE, 0)}

\* a message arrives after every earlier one has ended
onMessageInTurn(msg) ==
    /\ \A c \in DOMAIN commands : commands[c].pc \in {"responded", "rejected"}
    /\ onMessage(msg)

CommandNext ==
    \/ \E msg \in CommandMessages : onMessageInTurn(msg)
    \/ \E c \in DOMAIN commands, ok \in BOOLEAN : onMessageGotSettings(c, ok)
    \/ \E c \in DOMAIN commands, ok \in BOOLEAN : onMessageSetSettings(c, ok)
    \/ \E c \in DOMAIN commands, ok \in BOOLEAN : onMessageGotUpdated(c, ok)

\* commands run one at a time, from the default settings, no navigation
SpecCommands == InitCommands /\ [][CommandNext]_vars

\* navigations and timers, the pages answering with one of three documents,
\* two of which differ in one blank
CaptureNext ==
    \/ \E t \in Tabs, u \in Urls, f \in FrameIds : onCommitted(t, u, f)
    \/ \E t \in Tabs, u \in Urls, f \in FrameIds : onCompleted(t, u, f)
    \/ \E h \in DOMAIN completions, ok \in BOOLEAN : onCompletedGotSettings(h, ok)
    \/ \E h \in DOMAIN completions, ok \in BOOLEAN : onCompletedGotPolicy(h, ok)
    \/ \E t \in Tabs : onRemoved(t)
    \/ \E i \in DOMAIN timers : archiveTimerFired(i)
    \/ \E i \in DOMAIN timers, ok \in BOOLEAN : archiveTimerGotTab(i, ok)
    \/ \E i \in DOMAIN timers, ok \in BOOLEAN : archiveTimerPutVisit(i, ok)
    \/ \E i \in DOMAIN timers, ok \in BOOLEAN : archiveTimerPurged(i, ok)
    \/ \E i \in DOMAIN timers, ok \in BOOLEAN : archiveTimerGotPolicy(i, ok)
    \/ \E i \in DOMAIN timers, ok \in BOOLEAN : archiveTimerInjected(i, ok)
    \/ \E i \in DOMAIN timers, ok \in BOOLEAN, doc \in CaptureDocs :
           archiveTimerGotSnapshot(i, ok, doc)
    \/ \E i \in DOMAIN timers, ok \in BOOLEAN, latest \in pages \cup {Nil} :
           archiveTimerGotVersions(i, ok, latest)
    \/ \E i \in DOMAIN timers, ok \in BOOLEAN : archiveTimerPutVersion(i, ok)

\* a page visited twice, captured each time
SpecCapture == InitFair /\ [][CaptureNext]_vars

\* the dwell timers and their callbacks
TimerNext ==
    \/ \E i \in DOMAIN timers : archiveTimerFired(i)
    \/ \E i \in DOMAIN timers, ok \in BOOLEAN : archiveTimerGotTab(i, ok)
    \/ \E i \in DOMAIN timers, ok \in BOOLEAN : archiveTimerPutVisit(i, ok)
    \/ \E i \in DOMAIN timers, ok \in BOOLEAN : archiveTimerPurged(i, ok)
    \/ \E i \in DOMAIN timers, ok \in BOOLEAN : archiveTimerGotPolicy(i, ok)
    \/ \E i \in DOMAIN timers, ok \in BOOLEAN : archiveTimerInjected(i, ok)
    \/ \E i \in DOMAIN timers, ok \in BOOLEAN, doc \in Docs : archiveTimerGotSnapshot(i, ok, doc)
    \/ \E i \in DOMAIN timers, ok \in BOOLEAN, latest \in pages \cup {Nil} :
           archiveTimerGotVersions(i, ok, latest)
    \/ \E i \in DOMAIN timers, ok \in BOOLEAN : archiveTimerPutVersion(i, ok)

\* the page loads of the two tabs complete, and their timers run
TwoTabsNext ==
    \/ \E t \in Tabs, u \in Urls, f \in FrameIds : onCompleted(t, u, f)
    \/ \E h \in DOMAIN completions, ok \in BOOLEAN : onCompletedGotSettings(h, ok)
    \/ \E h \in DOMAIN completions, ok \in BOOLEAN : onCompletedGotPolicy(h, ok)
    \/ TimerNext

\* two tabs on one URL, each with its dwell timer
SpecTwoTabs == InitTwoTabs /\ [][TwoTabsNext]_vars

\* the minimum stay is set to 5000 ms or to 0
StayMessages ==
    {Msg("PW_SET_MIN_STAY_MS", "", "", TRUE, 10000),
     Msg("PW_SET_MIN_STAY_MS", "", "", TRUE, 0)}

\* navigations, timers, and the minimum stay being set
StayNext ==
    \/ NavNext
    \/ \E msg \in StayMessages : onMessage(msg)
    \/ \E c \in DOMAIN commands, ok \in BOOLEAN : onMessageGotSettings(c, ok)
    \/ \E c \in DOMAIN commands, ok \in BOOLEAN : onMessageSetSettings(c, ok)

\* a page load, its dwell timer, and the minimum stay being set meanwhile
SpecStay == InitStay /\ [][StayNext]_vars

\* navigations and timers while the clock advances
RetentionNext == NavNext \/ Tick

\* one navigation and its dwell timer, the clock advancing, old Visits stored
SpecRetention == InitRetention /\ [][RetentionNext]_vars

\* messages arrive while the handlers of earlier ones are suspended
ConcurrentNext ==
    \/ \E msg \in Messages : onMessage(msg)
    \/ \E c \in DOMAIN commands, ok \in BOOLEAN : onMessageGotSettings(c, ok)
    \/ \E c \in DOMAIN commands, ok \in BOOLEAN : onMessageSetSettings(c, ok)
    \/ \E c \in DOMAIN commands, ok \in BOOLEAN : onMessageGotUpdated(c, ok)

\* commands racing with each other, from the default settings
SpecConcurrent == InitConcurrent /\ [][ConcurrentNext]_vars

\* the history page loads its pages
PagingNext ==
    \/ \E ok \in BOOLEAN : loadFirstPage(ok)
    \/ \E ok \in BOOLEAN : loadMore(ok)

\* the history page paging through a store that does not change meanwhile
SpecPaging == InitPaging /\ [][PagingNext]_vars

\* navigations racing with each other and with the timers, settings fixed
SpecNav == InitNav /\ [][NavNext]_vars

\* the callback of timer i resumes from the await it is at: every external
\* call it awaits returns, with a result or with a failure
archiveTimerResumes(i) ==
    \E ok \in BOOLEAN :
        \/ archiveTimerGotTab(i, ok)
        \/ archiveTimerPutVisit(i, ok)
        \/ archiveTimerPurged(i, ok)
        \/ archiveTimerGotPolicy(i, ok)
        \/ archiveTimerInjected(i, ok)
        \/ \E doc \in Docs : archiveTimerGotSnapshot(i, ok, doc)
        \/ \E latest \in pages \cup {Nil} : archiveTimerGotVersions(i, ok, latest)
        \/ archiveTimerPutVersion(i, ok)

\* navigations and timers, where the external calls of the callbacks
\* eventually return
FairNav ==
    /\ InitFair /\ [][NavNext]_vars
    /\ \A i \in 1..MaxRaceCompletions : WF_vars(archiveTimerResumes(i))

\* the events of two tabs: navigations, errors, removals and the dwell timers
IsolationNext ==
    \/ \E t \in Tabs, u \in {UA, UB} : onCommitted(t, u, 0)
    \/ \E t \in Tabs : onErrorOccurred(t, UA, 0)
    \/ \E t \in Tabs, u \in {UA, UB} : onCompleted(t, u, 0)
    \/ \E h \in DOMAIN completions, ok \in BOOLEAN : onCompletedGotSettings(h, ok)
    \/ \E h \in DOMAIN completions, ok \in BOOLEAN : onCompletedGotPolicy(h, ok)
    \/ \E t \in Tabs : onRemoved(t)
    \/ \E i \in DOMAIN timers : archiveTimerFired(i)
    \/ \E i \in DOMAIN timers, ok \in BOOLEAN : archiveTimerGotTab(i, ok)
    \/ \E i \in DOMAIN timers : archiveTimerPutVisit(i, TRUE)
    \/ \E i \in DOMAIN timers : archiveTimerPurged(i, TRUE)
    \/ \E i \in DOMAIN timers : archiveTimerGotPolicy(i, TRUE)
    \/ \E i \in DOMAIN timers : archiveTimerInjected(i, TRUE)
    \/ \E i \in DOMAIN timers : archiveTimerGotSnapshot(i, TRUE, DocA)
    \/ \E i \in DOMAIN timers, latest \in pages \cup {Nil} :
           archiveTimerGotVersions(i, TRUE, latest)
    \/ \E i \in DOMAIN timers : archiveTimerPutVersion(i, TRUE)

\* two tabs side by side; the store and the page answer every call of a
\* callback, the tab query may fail
SpecIsolation == InitIsolation /\ [][IsolationNext]_vars

\* timer i fires when no callback for its urlKey is under way, and at a clock
\* reading later than every stored capture: the awaited calls of a callback
\* take longer than one unit of Date.now()
archiveTimerFiredInTurn(i) ==
    /\ i \in DOMAIN timers
    /\ \A j \in DOMAIN timers :
           timers[j].pc \in TimerSteps => toUrlKey(timers[j].url) # toUrlKey(timers[i].url)
    /\ \A v \in pages : v.capturedAt < Max(now, timers[i].dueAt)
    /\ archiveTimerFired(i)

\* the page loads of two tabs complete, the clock advances, and the callbacks
\* of their timers run one after the other
InTurnNext ==
    \/ \E t \in Tabs, u \in Urls, f \in FrameIds : onCompleted(t, u, f)
    \/ \E h \in DOMAIN completions, ok \in BOOLEAN : onCompletedGotSettings(h, ok)
    \/ \E h \in DOMAIN completions, ok \in BOOLEAN : onCompletedGotPolicy(h, ok)
    \/ Tick
    \/ \E i \in DOMAIN timers : archiveTimerFiredInTurn(i)
    \/ \E i \in DOMAIN timers : archiveTimerResumes(i)

\* two tabs on one URL, whose captures do not overlap
SpecInTurn == InitTwoTabs /\ [][InTurnNext]_vars

\* ------------------------------------------------------------------------
\* Claims
\* ------------------------------------------------------------------------
\* the store writes made by the callback of timer i
WritesOf(i) == {e \in log : e.timerId = i}

\* the dwell timers of tabId that can still fire
PendingIn(tm, tabId) == {i \in DOMAIN tm : tm[i].tabId = tabId /\ tm[i].pc = "pending"}

\* how an invocation of the onCompleted listener ended
CompletionEnds == {"returned", "rejected", "errored", "ineligible", "scheduled"}

\* this step is the last of invocation h of the onCompleted listener
CompletionEndsNow(h) ==
    /\ h \in DOMAIN completions'
    /\ completions'[h].pc \in CompletionEnds
    /\ h \in DOMAIN completions => completions[h].pc \notin CompletionEnds

\* C1: a dwell timer that was pending when a top-level Commit for its tab was
\* processed (a bounce) never writes a Visit or a PageVersion.
C1_BounceWritesNothing == \A i \in bounced : WritesOf(i) = {}

\* C2: after any top-level Commit event for tab T, whatever the committed URL
\* and whatever the state before, T has no NavState entry and no dwell timer
\* that can still fire.
C2_CommitClearsTab ==
    [][\A t \in Tabs, u \in Urls :
          onCommitted(t, u, 0) => navByTab'[t] = Nil /\ PendingIn(timers', t) = {}]_vars

\* C3: a top-level Completion for (T,U) that is the next navigation event of T
\* after a top-level Error for (T,U) ends without having scheduled a timer, and
\* leaves T with no NavState entry and no errored mark (so that nothing is
\* written on its account).
C3_ErroredCompletionSkips ==
    [][\A h \in DOMAIN completions' :
          CompletionEndsNow(h) /\ completions'[h].afterError
              => /\ completions'[h].pc # "scheduled"
                 /\ timers' = timers
                 /\ navByTab'[completions'[h].tabId] = Nil
                 /\ erroredTabUrl'[completions'[h].tabId] = None]_vars

\* the ends of a callback one of whose external calls failed
TimerFailed == {"tabError", "visitError", "purgeError", "settingsError",
                "captureError", "versionsError", "putError"}

VisitsLoggedBy(i) == {e \in WritesOf(i) : e.op = "visit"}
PagesLoggedBy(i) == {e \in WritesOf(i) : e.op = "page"}

\* C4: a callback that has ended, whose tab query answered the URL the timer
\* was set for, none of whose external calls failed, whose URL was eligible
\* when the policy was asked, and which read no PageVersion of its urlKey, has
\* added exactly one Visit (url U) and exactly one PageVersion (url U, urlKey
\* U, html the captured content, hash the SHA-256 of that content).
C4_FirstCaptureStoresOnce ==
    \A i \in DOMAIN timers :
        LET t == timers[i] IN
        (/\ t.pc \in TimerEnds
         /\ t.seen = t.url
         /\ t.pc \notin TimerFailed
         /\ t.pc # "skipped"
         /\ t.recent = {})
        => /\ Cardinality(VisitsLoggedBy(i)) = 1
           /\ Cardinality(PagesLoggedBy(i)) = 1
           /\ t.visit \in visits /\ t.visit.url = t.url
           /\ t.version \in pages
           /\ t.version.url = t.url /\ t.version.urlKey = t.url
           /\ t.version.html = t.snap.html
           /\ t.version.hash = sha256Hex(t.snap.html)

C4_Witness ==
    \E i \in DOMAIN timers :
        /\ timers[i].pc = "stored" /\ timers[i].recent = {}
        /\ timers[i].version \in pages

\* C5: a callback that read stored versions of its urlKey, the most recent of
\* which have the hash of the content it captured, ends having appended its
\* Visit and written no PageVersion.
C5_UnchangedLogsVisitOnly ==
    \A i \in DOMAIN timers :
        LET t == timers[i] IN
        (t.recent # {} /\ \A v \in t.recent : v.hash = sha256Hex(t.snap.html))
        => /\ t.pc = "unchanged"
           /\ Cardinality(VisitsLoggedBy(i)) = 1
           /\ t.visit \in visits
           /\ PagesLoggedBy(i) = {}
           /\ t.version = Nil

C5_Witness ==
    \E i \in DOMAIN timers :
        /\ timers[i].pc = "unchanged"
        /\ \E v \in timers[i].recent : v.hash = sha256Hex(timers[i].snap.html)
        /\ timers[i].visit \in visits

\* C6: whenever a PageVersion of U has been written, a Visit of U had been
\* appended before by the same callback; and a callback that discarded its
\* capture as a duplicate has appended its Visit.
C6_VisitBeforeVersion ==
    /\ \A e \in log : e.op = "page" =>
           \E v \in log : v.op = "visit" /\ v.timerId = e.timerId /\ v.url = e.url
    /\ \A i \in DOMAIN timers : timers[i].pc = "unchanged" =>
           \E v \in log : v.op = "visit" /\ v.timerId = i /\ v.url = timers[i].url

C6_Witness ==
    \E i, j \in DOMAIN timers :
        /\ timers[i].pc = "stored" /\ PagesLoggedBy(i) # {}
        /\ timers[j].pc = "unchanged" /\ VisitsLoggedBy(j) # {}

\* C7: a callback whose tab query failed, or answered another URL than the one
\* the timer was set for, has ended, and has written no Visit and no
\* PageVersion and taken no snapshot.
C7_MismatchAborts ==
    \A i \in DOMAIN timers :
        LET t == timers[i] IN
        t.seen \notin {None, t.url}
        => /\ t.pc \in TimerEnds
           /\ WritesOf(i) = {}
           /\ t.visit = Nil /\ t.snap = Nil /\ t.version = Nil

C7_Witness ==
    \E i, j \in DOMAIN timers :
        /\ timers[i].seen = Failed
        /\ timers[j].seen \in Urls \ {timers[j].url}

\* the callback of timer i has begun and not ended
InCallback(i) == i \in DOMAIN timers /\ timers[i].pc \in TimerSteps

\* the callback of timer i has ended
Ended(i) == i \in DOMAIN timers /\ timers[i].pc \in TimerEnds

\* C8: every callback that has begun eventually ends, and in the state its
\* last step leaves, however it ended, its tab has no NavState entry and no
\* erroredTabUrl entry.
C8_CallbackEndsCleared ==
    /\ \A i \in 1..MaxRaceCompletions : InCallback(i) ~> Ended(i)
    /\ [][\A i \in DOMAIN timers :
             InCallback(i) /\ timers'[i].pc \in TimerEnds
                 => /\ navByTab'[timers[i].tabId] = Nil
                    /\ erroredTabUrl'[timers[i].tabId] = None]_vars

C8_Witness ==
    \E i, j \in DOMAIN timers :
        /\ timers[i].pc = "stored"
        /\ timers[j].pc \in TimerCaught
        /\ navByTab[timers[j].tabId] = Nil

\* C9: no invocation of a navigation listener or of a timer callback has ended
\* with a rejected promise that nothing handles.
C9_NoUnhandledRejection == \A r \in unhandled : r[1] = "onMessage"

\* C10: a top-level Completion for (T,U), U ineligible under the URL policy
\* (not http(s), archiving disabled, host denied, or deny pattern matched),
\* whose settings reads succeed, ends without having scheduled a timer and
\* leaves T with no NavState entry and no dwell timer that can still fire.
C10_IneligibleCompletionClears ==
    [][\A h \in DOMAIN completions' :
          (/\ CompletionEndsNow(h)
           /\ completions'[h].pc # "rejected"
           /\ ~shouldArchiveUrl(completions'[h].url, settings))
              => /\ completions'[h].pc # "scheduled"
                 /\ Len(timers') = Len(timers)
                 /\ navByTab'[completions'[h].tabId] = Nil
                 /\ PendingIn(timers', completions'[h].tabId) = {}]_vars

\* C11: a tab-removed event for T leaves T with no NavState entry, no
\* erroredTabUrl entry and no dwell timer that can still fire; and a callback
\* that begins after its tab was removed ends at the tab query, before the
\* Visit and the snapshot.
C11_RemovedTabIsCleared ==
    [][/\ \A t \in Tabs :
             onRemoved(t) => /\ navByTab'[t] = Nil
                             /\ erroredTabUrl'[t] = None
                             /\ PendingIn(timers', t) = {}
       /\ \A i \in DOMAIN timers :
             (timers[i].pc = "tabsGet" /\ tabUrl[timers[i].tabId] = NoTab)
                 => timers'[i].pc \in {"tabsGet", "tabError"}]_vars

\* C12: a Commit, Error or Completion event of a frame other than the
\* top-level one leaves navByTab, erroredTabUrl, the timers and the archive
\* store as they were.
C12_SubFrameEventsChangeNothing ==
    [][\A t \in Tabs, u \in Urls, f \in FrameIds \ {0} :
          (onCommitted(t, u, f) \/ onErrorOccurred(t, u, f) \/ onCompleted(t, u, f))
              => UNCHANGED <<navByTab, erroredTabUrl, timers, visits, pages>>]_vars

C12_Witness ==
    /\ used.frames = MaxFrameEvents
    /\ \E t \in Tabs : navByTab[t] # Nil /\ erroredTabUrl[t] # None
                       /\ PendingIn(timers, t) # {}

\* the text of url before its first ":" is neither http nor https (which it
\* also is when url has no ":" at all, and does not parse)
NotHttpScheme(url) == Slice(url, 1, 5) # "http:" /\ Slice(url, 1, 6) # "https:"

\* the URLs that new URL() rejects: no scheme, or an http(s) URL without host
Unparseable == {UNone, UNoHost}

\* the Completion listeners that asked the URL policy and got its answer
PolicyAsked == {h \in DOMAIN completions : completions[h].pc \in {"ineligible", "scheduled"}}

\* C13: the eligibility check answers false for every URL when
\* settings.enabled is false, and for every URL whose scheme is not http(s)
\* or that does not parse, whatever the settings; so a Completion listener
\* schedules a timer only with archiving enabled, for an http(s) URL.
C13_DisabledOrNotHttpIsIneligible ==
    /\ \A u \in PolicyUrls :
          (~settings.enabled \/ NotHttpScheme(u) \/ u \in Unparseable)
              => ~shouldArchiveUrl(u, settings)
    /\ \A h \in PolicyAsked :
          (~settings.enabled \/ NotHttpScheme(completions[h].url)
                             \/ completions[h].url \in Unparseable)
              => completions[h].pc = "ineligible"

C13_Witness ==
    \E h \in PolicyAsked :
        /\ ~settings.enabled
        /\ completions[h].pc = "ineligible"
        /\ settings.disabledHosts = <<>> /\ settings.disabledUrlPatterns = <<>>

\* the pattern p from position i matches the URL u from position j, each "*"
\* standing for any sequence of characters and every other character for itself
RECURSIVE C14_WildcardFrom(_, _, _, _)
C14_WildcardFrom(p, i, u, j) ==
    IF i > Len(p) THEN j > Len(u)
    ELSE IF CharAt(p, i) = "*"
         THEN \E k \in j..(Len(u) + 1) : C14_WildcardFrom(p, i + 1, u, k)
    ELSE /\ j <= Len(u)
         /\ CharAt(u, j) = CharAt(p, i)
         /\ C14_WildcardFrom(p, i + 1, u, j + 1)

\* C14: a URL matches a deny pattern exactly when the whole URL matches the
\* pattern read with each "*" as any sequence of zero or more characters and
\* every other character as itself; "*://*.github.com/*/settings*" matches
\* "https://foo.github.com/bar/settings/x" and not
\* "https://foo.github.com/bar/other". So a Completion listener that asked
\* the policy, archiving enabled and no host disabled, about an http(s) URL
\* schedules no timer exactly when a deny pattern matches in this reading.
C14_WildcardReading ==
    \A h \in PolicyAsked :
        (/\ settings.enabled
         /\ settings.disabledHosts = <<>>
         /\ ~NotHttpScheme(completions[h].url)
         /\ completions[h].url \notin Unparseable)
            => (completions[h].pc = "ineligible"
                  <=> \E k \in 1..Len(settings.disabledUrlPatterns) :
                         C14_WildcardFrom(settings.disabledUrlPatterns[k], 1,
                                          completions[h].url, 1))

\* the patterns of ps that compile, in their order
C15_Compiling(ps) == SelectSeq(ps, LAMBDA p : wildcardToRegExp(p) # RegExpError)

\* C15: a deny pattern that fails to compile is skipped: the answer of the
\* pattern check is a boolean, the one that the patterns which compile give
\* on their own, whether they stand before or after the failing one; and a
\* Completion listener that asked the policy with such a list schedules no
\* timer when a later pattern of the list matches.
C15_MalformedPatternSkipped ==
    LET ps == settings.disabledUrlPatterns
        good == C15_Compiling(ps)
    IN  /\ \A u \in PolicyUrls :
              /\ urlMatchesPatterns(u, ps) \in BOOLEAN
              /\ urlMatchesPatterns(u, ps)
                    = (\E k \in 1..Len(good) : RegExpTest(wildcardToRegExp(good[k]), u))
        /\ \A h \in PolicyAsked :
              (\E k \in 1..Len(good) :
                  RegExpTest(wildcardToRegExp(good[k]), completions[h].url))
                  => completions[h].pc = "ineligible"

C15_Witness ==
    \E h \in PolicyAsked :
        /\ settings.enabled /\ settings.disabledHosts = <<>>
        /\ settings.disabledUrlPatterns = <<PatStar, UB>>
        /\ wildcardToRegExp(PatStar) = RegExpError
        /\ completions[h].url = UB
        /\ completions[h].pc = "ineligible"

\* the host component (URL.host: the host name, and the port when it is not
\* the scheme's default) of the http(s) URLs asked about
C16_Host(u) ==
    CASE u = UA -> "a.com"
      [] u = UB -> "b.com"
      [] u = UBx -> "b.com"
      [] u = USub -> "sub.a.com"
      [] u = UPort -> "a.com:8080"
      [] u \in {UGitSettings, UGitOther} -> "foo.github.com"

C16_HttpUrls == {UA, UB, UBx, USub, UPort, UGitSettings, UGitOther}

\* C16: with archiving enabled and no deny patterns, the eligibility check
\* rejects an http(s) URL exactly when its host component is, as a whole
\* string, an entry of disabledHosts; so a Completion listener that asked the
\* policy schedules no timer exactly for those URLs.
C16_HostRejectedWhenListed ==
    (settings.enabled /\ settings.disabledUrlPatterns = <<>>) =>
        /\ \A u \in C16_HttpUrls :
              ~shouldArchiveUrl(u, settings)
                  <=> \E k \in 1..Len(settings.disabledHosts) :
                          settings.disabledHosts[k] = C16_Host(u)
        /\ \A h \in PolicyAsked :
              completions[h].pc = "ineligible"
                  <=> \E k \in 1..Len(settings.disabledHosts) :
                          settings.disabledHosts[k] = C16_Host(completions[h].url)

C16_Witness ==
    \E h \in PolicyAsked :
        /\ settings.enabled /\ settings.disabledUrlPatterns = <<>>
        /\ settings.disabledHosts = <<"a.com", "b.com">>
        /\ completions[h].url = UBx
        /\ completions[h].pc = "ineligible"

\* q ascends strictly in the order of Array.prototype.sort(): it is sorted
\* and holds no entry twice
C17_StrictlyAscending(q) == \A i, j \in 1..Len(q) : i < j => StrLess(q[i], q[j])

\* C17: from the default settings, after any sequence of command messages
\* run one at a time, disabledHosts and disabledUrlPatterns hold no entry
\* twice and are sorted ascending.
C17_ListsSortedWithoutDuplicates ==
    /\ C17_StrictlyAscending(settings.disabledHosts)
    /\ C17_StrictlyAscending(settings.disabledUrlPatterns)

C17_Witness ==
    /\ Len(commands) = 3
    /\ \A c \in 1..3 : commands[c].pc = "responded"
    /\ commands[1].msg = Msg("PW_TOGGLE_HOST", UB, "", FALSE, 0)
    /\ commands[2].msg = Msg("PW_TOGGLE_HOST", UA, "", FALSE, 0)
    /\ commands[3].msg = Msg("PW_ADD_URL_PATTERN", "", PatB, FALSE, 0)
    /\ settings.disabledHosts = <<"a.com", "b.com">>
    /\ settings.disabledUrlPatterns = <<PatB>>

\* command c is a PW_TOGGLE_HOST that has answered
C18_Toggled(c) ==
    commands[c].msg.type = "PW_TOGGLE_HOST" /\ commands[c].pc = "responded"

\* C18: two consecutive PW_TOGGLE_HOST commands with one URL leave
\* disabledHosts, sorted and without duplicates before them, as it was: the
\* list the second one answers with, and the stored one after it, is the list
\* the first one read. A PW_TOGGLE_HOST whose URL has no parseable host
\* writes the list it read and answers ok:true (a handler whose storage call
\* fails never answers: that is C20's matter).
C18_ToggleHostTwiceRestores ==
    /\ \A c \in 1..(Len(commands) - 1) :
          (/\ C18_Toggled(c) /\ C18_Toggled(c + 1)
           /\ commands[c].msg.url = commands[c + 1].msg.url
           /\ C17_StrictlyAscending(commands[c].read.disabledHosts))
              => /\ commands[c + 1].response.settings.disabledHosts
                        = commands[c].read.disabledHosts
                 /\ (c + 1 = Len(commands))
                        => settings.disabledHosts = commands[c].read.disabledHosts
    /\ \A c \in DOMAIN commands :
          (commands[c].msg.type = "PW_TOGGLE_HOST" /\ commands[c].msg.url = UNone) =>
              /\ commands[c].next # Nil
                    => commands[c].next.disabledHosts = commands[c].read.disabledHosts
              /\ commands[c].pc = "responded"
                    => /\ commands[c].response.ok
                       /\ commands[c].response.settings.disabledHosts
                              = commands[c].read.disabledHosts
                       /\ (c = Len(commands))
                              => settings.disabledHosts = commands[c].read.disabledHosts

C18_Witness ==
    /\ Len(commands) = 3
    /\ C18_Toggled(1) /\ C18_Toggled(2) /\ C18_Toggled(3)
    /\ commands[1].msg.url = UB
    /\ commands[2].msg.url = UA /\ commands[3].msg.url = UA
    /\ commands[2].read.disabledHosts = <<"b.com">>
    /\ commands[2].response.settings.disabledHosts = <<"a.com", "b.com">>
    /\ settings.disabledHosts = <<"b.com">>

\* C19: after PW_SET_MIN_STAY_MS with any input the stored minStayMs is an
\* integer greater than or equal to 0: for a finite input v (twice/2 here) it
\* is 0 when v < 0 and otherwise the integer m with m <= v < m + 1; a
\* non-finite input leaves the value the handler read.
C19_MinStayClamped ==
    /\ settings.minStayMs \in Nat
    /\ \A c \in DOMAIN commands :
          (commands[c].msg.type = "PW_SET_MIN_STAY_MS" /\ commands[c].next # Nil) =>
              LET msg == commands[c].msg
                  m == commands[c].next.minStayMs
              IN  /\ m \in Nat
                  /\ (msg.finite /\ msg.twice < 0) => m = 0
                  /\ (msg.finite /\ msg.twice >= 0)
                        => (2 * m <= msg.twice /\ msg.twice < 2 * m + 2)
                  /\ ~msg.finite => m = commands[c].read.minStayMs
                  /\ (commands[c].pc = "responded" /\ c = Len(commands))
                        => settings.minStayMs = m

C19_Witness ==
    /\ Len(commands) = 3
    /\ \A c \in 1..3 : commands[c].pc = "responded"
    /\ commands[1].msg = Msg("PW_SET_MIN_STAY_MS", "", "", TRUE, 7)
    /\ commands[1].response.settings.minStayMs = 3
    /\ commands[2].msg = Msg("PW_SET_MIN_STAY_MS", "", "", FALSE, 0)
    /\ commands[2].response.settings.minStayMs = 3
    /\ commands[3].msg = Msg("PW_SET_MIN_STAY_MS", "", "", TRUE, -3)
    /\ settings.minStayMs = 0

\* C20: every message gets one response carrying an ok flag: a message of an
\* unrecognised type gets {ok: false, error: "Unknown message"}, and a
\* recognised command whose settings read or write failed gets an ok:false
\* response with an error rather than none.
C20_EveryMessageAnswered ==
    \A c \in DOMAIN commands :
        (commands[c].pc \in {"responded", "rejected"}) =>
            /\ commands[c].response # Nil
            /\ commands[c].response.ok \in BOOLEAN
            /\ (commands[c].msg.type \notin KnownTypes)
                  => commands[c].response = Response(FALSE, Nil, "Unknown message")
            /\ (commands[c].pc = "rejected")
                  => (~commands[c].response.ok /\ commands[c].response.error # "")

\* C21: visit logging purges with cutoff = (time of logging - 30 days): the
\* cutoff is the clock's value, when logVisit goes on after its put, less 30
\* days; and the purge deletes exactly the Visits with visitAt < cutoff, so
\* that a Visit with visitAt equal to or later than the cutoff is retained.
C21_PurgeOlderThanCutoff ==
    [][\A i \in DOMAIN timers :
          /\ (timers[i].pc = "putVisit" /\ timers'[i].pc = "purge")
                => timers'[i].cutoff = now - 30 * 24 * 3600
          /\ (timers[i].pc = "purge" /\ timers'[i].pc \notin {"purge", "purgeError"})
                => /\ \A v \in visits : v \in visits' <=> v.visitAt >= timers[i].cutoff
                   /\ visits' \subseteq visits]_vars

C21_Witness ==
    \E i \in DOMAIN timers :
        /\ timers[i].pc = "stored"
        /\ timers[i].visit \in visits
        /\ \E v \in OldVisits : v.visitAt = timers[i].cutoff - 1 /\ v \notin visits
        /\ \E v \in OldVisits : v.visitAt = timers[i].cutoff /\ v \in visits
        /\ timers[i].cutoff > timers[i].visit.visitAt - DAYS_30

\* h is 64 lowercase hexadecimal characters
C22_Hex64(h) ==
    /\ Len(h) = 64
    /\ \A k \in 1..Len(h) :
          CharAt(h, k) \in {"0", "1", "2", "3", "4", "5", "6", "7", "8", "9",
                            "a", "b", "c", "d", "e", "f"}

\* C22: the fingerprint is a function of the raw captured string: a stored
\* version's hash is the digest of its html, always 64 lowercase hexadecimal
\* characters; equal strings have equal digests and strings that differ, be
\* it in one blank, have different ones, so that a callback finds its capture
\* unchanged only when the latest version holds the very string it captured,
\* and stores a new version when the two differ.
C22_FingerprintOfRawString ==
    /\ \A v \in pages : v.hash = sha256Hex(v.html) /\ C22_Hex64(v.hash)
    /\ \A v, w \in pages : (v.html = w.html) <=> (v.hash = w.hash)
    /\ \A i \in DOMAIN timers :
          LET t == timers[i] IN
          /\ t.pc = "unchanged" => \E v \in t.recent : v.html = t.snap.html
          /\ (t.snap # Nil /\ t.recent # {} /\ t.pc \in {"putPageVersion", "stored", "putError"})
                => \E v \in t.recent : v.html # t.snap.html
          /\ t.version # Nil => C22_Hex64(t.version.hash)

C22_Witness ==
    \E i \in DOMAIN timers :
        /\ timers[i].pc = "stored"
        /\ timers[i].snap.html = SnapshotHtml(DocASpaced)
        /\ \E v \in timers[i].recent : v.html = SnapshotHtml(DocA)
        /\ timers[i].version \in pages

\* C23: two tabs on one URL whose callbacks interleave can both read the
\* same latest version, both pass the hash comparison and both write a
\* PageVersion with the same urlKey and hash (the state of C23_Witness). Each
\* of the two has passed the comparison on what it read: a callback writes a
\* version only when it read no version of the urlKey, or when a latest
\* version it read has another hash than its capture.
C23_WritersPassedComparison ==
    \A i \in DOMAIN timers :
        LET t == timers[i] IN
        t.version # Nil =>
            /\ t.recent = {} \/ \E v \in t.recent : v.hash # t.version.hash
            /\ \A v \in t.recent : v.urlKey = t.version.urlKey

C23_Witness ==
    \E i, j \in DOMAIN timers :
        /\ timers[i].tabId # timers[j].tabId
        /\ timers[i].pc = "stored" /\ timers[j].pc = "stored"
        /\ timers[i].recent = timers[j].recent
        /\ timers[i].recent # {}
        /\ timers[i].version \in pages /\ timers[j].version \in pages
        /\ timers[i].version # timers[j].version
        /\ timers[i].version.urlKey = timers[j].version.urlKey
        /\ timers[i].version.hash = timers[j].version.hash

\* C24: when the snapshot capture of a callback fails (the injection is
\* rejected, the agent cannot be reached or answers ok:false), the callback
\* ends there: it has written no PageVersion, the Visit it appended is kept,
\* its last step writes nothing, sets no timer and makes none pending again,
\* and leaves its tab without NavState and errored mark.
C24_CaptureFailureSkips ==
    /\ [](\A i \in DOMAIN timers :
            timers[i].pc = "captureError"
                => /\ PagesLoggedBy(i) = {}
                   /\ timers[i].version = Nil
                   /\ Cardinality(VisitsLoggedBy(i)) = 1
                   /\ timers[i].visit \in visits)
    /\ [][\A i \in DOMAIN timers :
             (timers[i].pc \in {"inject", "sendMessage"} /\ timers'[i].pc = "captureError")
                 => /\ pages' = pages /\ visits' = visits
                    /\ DOMAIN timers' = DOMAIN timers
                    /\ \A j \in DOMAIN timers :
                          timers'[j].pc = "pending" => timers[j].pc = "pending"
                    /\ navByTab'[timers[i].tabId] = Nil
                    /\ erroredTabUrl'[timers[i].tabId] = None]_vars

C24_Witness ==
    \E i, j \in DOMAIN timers :
        /\ timers[i].pc = "captureError" /\ timers[i].snap = Nil
        /\ timers[i].visit \in visits
        /\ timers[j].pc = "stored"
        /\ Cardinality(pages \ {StoredA}) = 1
        /\ Cardinality(visits) = 2

\* C25: a top-level navigation Error event for tab T whose URL is the URL of
\* T's NavState destroys that NavState and cancels its timer.
C25_ErrorDestroysNavState ==
    [][\A t \in Tabs, u \in Urls :
          (onErrorOccurred(t, u, 0) /\ navByTab[t] # Nil /\ navByTab[t].url = u)
              => navByTab'[t] = Nil /\ PendingIn(timers', t) = {}]_vars

\* C27: a top-level Error event for (T,U) only sets erroredTabUrl[T] = U: it
\* leaves every NavState, every timer, the marks of the other tabs and the
\* store as they were, so that a timer pending for T is pending after it and
\* still fires.
C27_ErrorOnlyMarks ==
    [][\A t \in Tabs, u \in Urls :
          onErrorOccurred(t, u, 0)
              => /\ erroredTabUrl' = [erroredTabUrl EXCEPT ![t] = u]
                 /\ UNCHANGED <<navByTab, timers, visits, pages, settings>>
                 /\ \A i \in PendingIn(timers, t) :
                       timers'[i].pc = "pending" /\ timers'[i].dueAt = timers[i].dueAt]_vars

C27_Witness ==
    \E i \in DOMAIN timers :
        /\ used.errors = 1
        /\ timers[i].pc = "tabsGet"
        /\ navByTab[timers[i].tabId] # Nil
        /\ navByTab[timers[i].tabId].timerId = i
        /\ erroredTabUrl[timers[i].tabId] = timers[i].url

\* the steps of a callback from the snapshot capture to the write
C26_CaptureSteps == {"inject", "sendMessage", "getVersions", "putPageVersion"}

\* url is eligible under the settings s, whose deny patterns hold no wildcard
C26_Eligible(url, s) ==
    /\ s.enabled
    /\ ~\E k \in 1..Len(s.disabledHosts) : s.disabledHosts[k] = C16_Host(url)
    /\ ~\E k \in 1..Len(s.disabledUrlPatterns) : s.disabledUrlPatterns[k] = url

\* C26: the URL policy is asked again by the timer's callback, with the
\* settings stored at that moment: a callback begins the capture only from
\* the policy's answer, and only when its URL is eligible under the settings
\* then stored; when it is not, the callback ends there, whatever the policy
\* answered when the timer was set; and a PageVersion is only written by a
\* callback that went through the capture.
C26_PolicyAskedAtFire ==
    [][/\ \A i \in DOMAIN timers :
             /\ (timers[i].pc \notin C26_CaptureSteps /\ timers'[i].pc \in C26_CaptureSteps)
                   => /\ timers[i].pc = "getSettings"
                      /\ C26_Eligible(timers[i].url, settings)
             /\ (timers[i].pc = "getSettings" /\ ~C26_Eligible(timers[i].url, settings)
                 /\ timers'[i].pc # "getSettings")
                   => timers'[i].pc \in {"skipped", "settingsError"}
       /\ pages' # pages
             => \E i \in DOMAIN timers :
                   /\ timers[i].pc = "putPageVersion"
                   /\ pages' = pages \cup {timers[i].version}]_vars

C26_Witness ==
    \E i \in DOMAIN timers, h \in DOMAIN completions, c \in DOMAIN commands :
        /\ completions[h].pc = "scheduled" /\ completions[h].url = timers[i].url
        /\ commands[c].pc = "responded"
        /\ ~C26_Eligible(timers[i].url, settings)
        /\ timers[i].pc = "skipped"
        /\ timers[i].visit \in visits
        /\ PagesLoggedBy(i) = {}

\* C28: the delay of a dwell timer is the minStayMs that the Completion
\* listener which set it read from the settings; a PW_SET_MIN_STAY_MS that
\* writes the settings later changes no timer: each stays as it was, pending
\* if it was pending and due when it was due, and fires then.
C28_DelayReadAtCompletion ==
    [][/\ \A h \in DOMAIN completions :
             /\ (completions[h].pc = "getSettings"
                 /\ completions'[h].pc \in {"shouldArchive", "errored"})
                   => completions'[h].minStayMs = settings.minStayMs
             /\ (completions[h].pc = "shouldArchive" /\ completions'[h].pc = "scheduled")
                   => /\ Len(timers') = Len(timers) + 1
                      /\ timers'[Len(timers')].delay = completions[h].minStayMs
                      /\ 1000 * (timers'[Len(timers')].dueAt - now) >= completions[h].minStayMs
                      /\ 1000 * (timers'[Len(timers')].dueAt - now - 1) < completions[h].minStayMs
       /\ settings' # settings => timers' = timers
       /\ \A i \in DOMAIN timers :
             (timers[i].pc = "pending" /\ timers'[i].pc = "tabsGet")
                 => now' >= timers[i].dueAt /\ now' = Max(now, timers[i].dueAt)]_vars

C28_Witness ==
    \E i \in DOMAIN timers, c \in DOMAIN commands :
        /\ commands[c].pc = "responded"
        /\ settings.minStayMs = 5000
        /\ timers[i].delay = 2000
        /\ timers[i].dueAt = 2
        /\ timers[i].pc = "stored"
        /\ timers[i].visit.visitAt = 2

\* the stored versions of urlKey with the greatest capturedAt
C29_Latest(urlKey) ==
    {v \in pages : /\ v.urlKey = urlKey
                   /\ \A w \in pages : w.urlKey = urlKey => w.capturedAt <= v.capturedAt}

\* C29: the hash comparison looks only at the version of the urlKey with the
\* greatest capturedAt: a callback that reads the versions goes on to write a
\* PageVersion with its capture's hash when there is none or when the latest
\* has another hash, even when an older version has that hash, and finds its
\* capture unchanged when the latest has the same hash.
C29_ComparedWithLatestOnly ==
    [][\A i \in DOMAIN timers :
          (timers[i].pc = "getVersions"
           /\ timers'[i].pc \notin {"getVersions", "versionsError"}) =>
              LET latest == C29_Latest(toUrlKey(timers[i].url))
                  hash == sha256Hex(timers[i].snap.html)
              IN  /\ (\A v \in latest : v.hash # hash)
                        => /\ timers'[i].pc = "putPageVersion"
                           /\ timers'[i].version.hash = hash
                           /\ timers'[i].version.html = timers[i].snap.html
                           /\ \A w \in pages : w.versionId # timers'[i].version.versionId
                  /\ (latest # {} /\ \A v \in latest : v.hash = hash)
                        => timers'[i].pc = "unchanged" /\ timers'[i].version = Nil]_vars

C29_Witness ==
    \E i, j \in DOMAIN timers :
        /\ StoredA \in pages
        /\ timers[i].pc = "stored" /\ timers[j].pc = "stored"
        /\ timers[i].version \in pages /\ timers[j].version \in pages
        /\ timers[i].version.hash = sha256Hex(SnapshotHtml(DocB))
        /\ timers[j].version.hash = StoredA.hash
        /\ StoredA.capturedAt < timers[i].version.capturedAt
        /\ timers[i].version.capturedAt < timers[j].version.capturedAt
        /\ Cardinality({v \in pages : v.urlKey = toUrlKey(UA)}) = 3

\* C30: the capture pipeline never modifies or replaces a stored record: each
\* Visit and each PageVersion it writes has an identifier no stored record
\* has, every stored PageVersion stays in the store with the fields it has,
\* and a Visit leaves the store only in a purge whose cutoff is later than
\* its visitAt (versions leave only through deleteVersion, which the
\* pipeline never calls).
C30_RecordsImmutable ==
    /\ [](/\ \A v, w \in pages : v.versionId = w.versionId => v = w
          /\ \A v, w \in visits : v.visitId = w.visitId => v = w)
    /\ [][/\ pages \subseteq pages'
          /\ \A v \in pages' \ pages : \A w \in pages : w.versionId # v.versionId
          /\ \A v \in visits' \ visits : \A w \in visits : w.visitId # v.visitId
          /\ \A v \in visits \ visits' :
                /\ \A w \in visits' : w.visitId # v.visitId
                /\ \E i \in DOMAIN timers :
                      timers[i].pc = "purge" /\ v.visitAt < timers[i].cutoff]_vars

C30_Witness ==
    \E i \in DOMAIN timers :
        /\ StoredA \in pages
        /\ timers[i].pc = "stored"
        /\ timers[i].version \in pages /\ timers[i].version # StoredA
        /\ timers[i].version.urlKey = StoredA.urlKey
        /\ timers[i].visit \in visits
        /\ OldVisits \cap visits # {}
        /\ OldVisits \ visits # {}

\* C31: each dwell timer makes at most one Visit write and at most one
\* PageVersion write; a callback that has ended never runs again, and the step
\* in which a callback ends on a failed call writes nothing and sets no new
\* timer.
C31_OneAttemptPerTimer ==
    /\ [](\A i \in DOMAIN timers :
             /\ Cardinality(VisitsLoggedBy(i)) <= 1
             /\ Cardinality(PagesLoggedBy(i)) <= 1)
    /\ [][\A i \in DOMAIN timers :
             /\ timers[i].pc \in TimerEnds => timers'[i] = timers[i]
             /\ (InCallback(i) /\ timers'[i].pc \in TimerFailed)
                    => /\ Len(timers') = Len(timers)
                       /\ log' = log
                       /\ visits' = visits /\ pages' = pages]_vars

\* a callback wrote its Visit and then ended on a failed call, and another
\* one wrote both its Visit and its PageVersion
C31_Witness ==
    \E i, j \in DOMAIN timers :
        /\ timers[i].pc \in {"purgeError", "captureError", "putError"}
        /\ Cardinality(VisitsLoggedBy(i)) = 1
        /\ PagesLoggedBy(i) = {}
        /\ timers[j].pc = "stored"
        /\ Cardinality(VisitsLoggedBy(j)) = 1
        /\ Cardinality(PagesLoggedBy(j)) = 1

\* C32: at every moment each tab has at most one dwell timer that can still
\* fire, and that timer is the one recorded in the tab's NavState.
C32_OnePendingTimerPerTab ==
    \A t \in Tabs :
        /\ Cardinality(PendingIn(timers, t)) <= 1
        /\ \A i \in PendingIn(timers, t) :
               navByTab[t] # Nil /\ navByTab[t].timerId = i

\* C33: whenever a tab has a NavState, its url is the URL of the most recent
\* top-level Commit processed for the tab (the URL the tab shows): a
\* Completion listener that was suspended while a newer Commit was processed
\* records no NavState for its own URL afterwards.
C33_NavStateIsOfLatestCommit ==
    \A t \in Tabs : navByTab[t] # Nil => navByTab[t].url = tabUrl[t]

\* C34: the step that ends the callback of a timer of tab T leaves alone the
\* NavState that a later Completion on T recorded for another timer, and that
\* timer: it neither deletes the one nor cancels the other.
C34_CleanupOnlyOwnState ==
    [][\A i \in DOMAIN timers :
          LET t == timers[i].tabId IN
          (/\ InCallback(i) /\ timers'[i].pc \in TimerEnds
           /\ navByTab[t] # Nil /\ navByTab[t].timerId # i)
              => /\ navByTab'[t] = navByTab[t]
                 /\ timers'[navByTab[t].timerId] = timers[navByTab[t].timerId]]_vars

\* C35: every PageVersion stored with url U holds a snapshot that was taken
\* while the tab was showing U.
C35_SnapshotIsOfStoredUrl ==
    \A e \in log : e.op = "page" => timers[e.timerId].shown = e.url

\* C36: a timer whose URL is ineligible under the settings stored when it
\* fires (archiving disabled, host denied or deny pattern matched) writes no
\* Visit.
C36_IneligibleAtFireLogsNoVisit ==
    \A i \in DOMAIN timers :
        (timers[i].firedWith # Nil /\ ~shouldArchiveUrl(timers[i].url, timers[i].firedWith))
            => VisitsLoggedBy(i) = {}

\* C37: when two commands that change different fields of the settings have
\* both been answered ok:true, the stored settings are the ones the service
\* worker started with, with both changes made.
C37_NoLostUpdate ==
    \A c, d \in DOMAIN commands :
        (/\ c < d
         /\ commands[c].msg.type # commands[d].msg.type
         /\ commands[c].pc = "responded" /\ commands[c].response.ok
         /\ commands[d].pc = "responded" /\ commands[d].response.ok)
            => settings = CommandUpdate(CommandUpdate(DefaultSettings, commands[c].msg),
                                        commands[d].msg)

\* C38: every page getVisitsPage returns holds at most limit rows; and once
\* the paging that follows nextBefore has been answered an empty page, the
\* rows it collected are the stored Visits, each exactly once, newest first.
C38_PagingReturnsEveryVisitOnce ==
    /\ Len(archivePage.page) <= archivePage.limit
    /\ (archivePage.loaded /\ ~archivePage.hasMore /\ archivePage.error = None)
           => /\ {archivePage.rows[k] : k \in 1..Len(archivePage.rows)} = visits
              /\ Len(archivePage.rows) = Cardinality(visits)
              /\ \A k \in 1..(Len(archivePage.rows) - 1) :
                     archivePage.rows[k].visitAt >= archivePage.rows[k + 1].visitAt

\* this step is an event of tab a: a Commit, Error or Completion event, the
\* resumption of one of its Completion listeners, its removal, or the firing
\* or a resumption of the callback of one of its timers
C39_EventOf(a) ==
    \/ \E u \in Urls, f \in FrameIds :
           onCommitted(a, u, f) \/ onErrorOccurred(a, u, f) \/ onCompleted(a, u, f)
    \/ \E h \in DOMAIN completions, ok \in BOOLEAN :
           /\ completions[h].tabId = a
           /\ onCompletedGotSettings(h, ok) \/ onCompletedGotPolicy(h, ok)
    \/ onRemoved(a)
    \/ \E i \in DOMAIN timers :
           /\ timers[i].tabId = a
           /\ archiveTimerFired(i) \/ archiveTimerResumes(i)

\* the NavState, the erroredTabUrl entry and the pending timers of tab b are
\* after this step what they were before
C39_Untouched(b) ==
    /\ navByTab'[b] = navByTab[b]
    /\ erroredTabUrl'[b] = erroredTabUrl[b]
    /\ PendingIn(timers', b) = PendingIn(timers, b)
    /\ \A i \in PendingIn(timers, b) : timers'[i] = timers[i]

\* C39: a Commit, Error, Completion, tab-removed or timer step of tab A leaves
\* the NavState, the erroredTabUrl entry and the pending timers of every other
\* tab B as they were (put the other way round: a step that changes them for
\* B is not an event of another tab A).
C39_TabsAreIsolated ==
    [][\A b \in Tabs :
          ~C39_Untouched(b) => \A a \in Tabs \ {b} : ~C39_EventOf(a)]_vars

\* the callback of a timer of one tab has ended and cleared its tab, while
\* the other tab keeps its NavState, its errored mark and its pending timer
C39_Witness ==
    \E a, b \in Tabs :
        /\ a # b
        /\ \E i \in DOMAIN timers : timers[i].tabId = a /\ timers[i].pc = "stored"
        /\ navByTab[a] = Nil
        /\ navByTab[b] # Nil
        /\ erroredTabUrl[b] = UA
        /\ PendingIn(timers, b) = {navByTab[b].timerId}

\* two stored versions of one urlKey with no third one between them in the
\* order of capturedAt
C40_Adjacent(v, w) ==
    /\ v # w
    /\ v.urlKey = w.urlKey
    /\ v.capturedAt <= w.capturedAt
    /\ ~\E u \in pages \ {v, w} :
           /\ u.urlKey = v.urlKey
           /\ v.capturedAt <= u.capturedAt /\ u.capturedAt <= w.capturedAt

\* C40: when the callbacks that capture one urlKey run one after the other
\* (and no version is deleted), two stored versions of that urlKey that are
\* neighbours in the order of capturedAt never have the same hash.
C40_NeighboursDiffer ==
    \A v, w \in pages : C40_Adjacent(v, w) => v.hash # w.hash

\* three versions of one urlKey, captured at three different times
C40_Witness ==
    \E u, v, w \in pages :
        /\ C40_Adjacent(u, v) /\ C40_Adjacent(v, w)
        /\ u.capturedAt < v.capturedAt /\ v.capturedAt < w.capturedAt
        /\ u.hash = w.hash

====
